---- MODULE Spec2Model ----
(***************************************************************************)
(* Identity federation and session management of the ToKiWa calendar       *)
(* backend: the identity document and its provider bindings, the two       *)
(* Firestore collections the identity code reads and writes, the Firebase  *)
(* Auth records, the link / unlink / profile handlers and the session      *)
(* token (JWT, HS256).                                                     *)
(*                                                                         *)
(* Twelve specifications share the variables:                              *)
(*   SpecBinding  addEmailProvider / addOAuthProvider on one in-memory     *)
(*                identity                                                 *)
(*   Spec         the request handlers over the stores                     *)
(*   SpecLegacy   the same handlers over a filled "users" collection       *)
(*   SpecLogin    signups and logins without linkUID                       *)
(*   SpecResolve  findOrCreateUserDataByEmail over a filled collection     *)
(*   SpecSession  generateSessionToken / validateSessionToken and a clock  *)
(*   SpecGate     authMiddleware in front of the authenticated handlers    *)
(*   SpecDerive   first OAuth logins of the three providers                *)
(*   SpecRoute    the local and the Lambda request routers                 *)
(*   SpecRace     two link requests whose read and write interleave        *)
(*   SpecCleanup  verification tokens, verifyEmailToken and the cleanup    *)
(*                job                                                      *)
(*   SpecTask     handleTaskSave over the "task" collection                *)
(***************************************************************************)
EXTENDS Integers, Sequences, FiniteSets, TLC

VARIABLES
    userData,      \* SpecBinding: the *UserData the add functions mutate
    bPrev,         \* SpecBinding: userData before the last call
    bArgs,         \* SpecBinding: <<kind, uid, email>> of the last call
    bRepeat,       \* SpecBinding: the last call repeated the one before it
    bCalls,        \* SpecBinding: number of calls made
    users,         \* Firestore collection "users" (read by the resolver)
    user_data,     \* Firestore collection "user_data" (written by save)
    authUsers,     \* Firebase Auth user records, by uid
    sessions,      \* uids a session token was issued for
    profile,       \* userName / userColor last saved by a profile update
    pre,           \* the stores before the last request
    last,          \* the last request and its response
    steps,         \* number of requests handled
    resolved,      \* SpecResolve: result of the last resolver call
    gate,          \* SpecGate: what authMiddleware decided for the last request
    route,         \* SpecRoute: the last request routed and the handler chosen
    race,          \* SpecRace: the link requests in flight, by process
    vtokens,       \* SpecCleanup: the "<collection>_verification_tokens" documents
    clean,         \* SpecCleanup: the CleanupExpiredUsers run
    verifs,        \* SpecCleanup: the verifyEmailToken calls in flight
    deletions,     \* SpecCleanup: the auth users deleted, as they were then
    tasks,         \* SpecTask: Firestore collection "task"
    tlast,         \* SpecTask: the last task request, its answer, tasks before
    now,           \* SpecSession: time.Now().Unix()
    jwtSecretEnv,  \* SpecSession: os.Getenv("JWT_SECRET")
    jwtStrictExp,  \* SpecSession: the linked jwt/v4 release rejects now = exp
    tok,           \* SpecSession: the token string under examination
    tokMint,       \* SpecSession: what tok was minted from, and how altered
    vres           \* SpecSession: result of the last validateSessionToken

bindVars == <<userData, bPrev, bArgs, bRepeat, bCalls>>
storeVars == <<users, user_data, authUsers, sessions, profile, pre, last, steps>>
sessVars == <<now, jwtSecretEnv, jwtStrictExp, tok, tokMint, vres>>
resolveVars == <<resolved>>
gateVars == <<gate>>
routeVars == <<route>>
raceVars == <<race>>
cleanupVars == <<vtokens, clean, verifs, deletions>>
taskVars == <<tasks, tlast>>
extVars == <<routeVars, raceVars, cleanupVars, taskVars>>
vars == <<userData, bPrev, bArgs, bRepeat, bCalls,
          users, user_data, authUsers, sessions, profile, pre, last, steps,
          resolved, gate, route, race, vtokens, clean, verifs, deletions,
          tasks, tlast,
          now, jwtSecretEnv, jwtStrictExp, tok, tokMint, vres>>

None == "none"

(***************************************************************************)
(* Data model                                                              *)
(***************************************************************************)
DefaultUserColor == "#3b82f6"

\* the four binding kinds in resolver precedence order, and the document
\* field that holds each kind's list
Kinds == <<"password", "google", "github", "twitter">>
KindSet == {"password", "google", "github", "twitter"}
OAuthProviders == {"google", "github", "twitter"}

ListField(kind) == IF kind = "password" THEN "email" ELSE kind

\* EmailProviderInfo / OAuthProviderInfo: the same two fields
ProviderInfo(uid, email) == [userUID |-> uid, emailAddress |-> email]

\* the UserData literal the handlers build when no document exists
DefaultUserData(uid) ==
    [userName |-> "", userColor |-> DefaultUserColor, uid |-> uid,
     email |-> <<>>, google |-> <<>>, github |-> <<>>, twitter |-> <<>>]

Range(s) == {s[i] : i \in 1..Len(s)}

BindingCount(d) == Len(d.email) + Len(d.google) + Len(d.github) + Len(d.twitter)

(***************************************************************************)
(* Account Linker: the in-memory merge                                     *)
(***************************************************************************)
\* a merge that matches only when email AND uid both equal the argument
AlreadyExistsBoth(list, email, uid) ==
    \E i \in 1..Len(list) : list[i].emailAddress = email /\ list[i].userUID = uid

\* the loop of addEmailProvider / addOAuthProvider: an entry matches when
\* its email OR its uid equals the argument
AlreadyExists(list, email, uid) ==
    \E i \in 1..Len(list) : list[i].emailAddress = email \/ list[i].userUID = uid

addEmailProvider(d, email, uid) ==
    IF AlreadyExists(d.email, email, uid)
    THEN d
    ELSE [d EXCEPT !.email = Append(@, ProviderInfo(uid, email))]

\* a merge without the duplicate scan
addOAuthProviderNoScan(d, provider, email, uid) ==
    IF provider \notin OAuthProviders
    THEN d
    ELSE [d EXCEPT ![provider] = Append(@, ProviderInfo(uid, email))]

addOAuthProvider(d, provider, email, uid) ==
    IF provider \notin OAuthProviders
    THEN d
    ELSE IF AlreadyExists(d[provider], email, uid)
         THEN d
         ELSE [d EXCEPT ![provider] = Append(@, ProviderInfo(uid, email))]

\* addBinding of the design: dispatch on the kind
addBinding(d, kind, uid, email) ==
    IF kind = "password"
    THEN addEmailProvider(d, email, uid)
    ELSE addOAuthProvider(d, kind, email, uid)

(***************************************************************************)
(* Session token (JWT).  A string is a sequence of one-character strings;  *)
(* a token is its three segments.  Segments one and two are carried as the *)
(* JSON they encode: base64url maps texts one to one and the MAC is taken  *)
(* over the encoded text, so a change of either text changes the MAC       *)
(* input.  The third segment is the MAC plus the two low bits of its last  *)
(* base64url character, which encode no signature byte (43 characters      *)
(* carry 258 bits, the HS256 MAC has 256).                                 *)
(***************************************************************************)
SessionTTL == 86400
DefaultSecret == "your-default-secret-key-for-development-only"

HMACAlgs == {"HS256", "HS384", "HS512"}

Quote == "\""
Backslash == "\\"

\* encoding/json string escaping as json.Marshal applies it to a claim
EscapeChar(c) ==
    IF c = Quote THEN <<Backslash, Quote>>
    ELSE IF c = Backslash THEN <<Backslash, Backslash>>
    ELSE IF c = "<" THEN <<Backslash, "u", "0", "0", "3", "c">>
    ELSE <<c>>

RECURSIVE EscapeFrom(_, _)
EscapeFrom(str, i) ==
    IF i > Len(str) THEN <<>> ELSE EscapeChar(str[i]) \o EscapeFrom(str, i + 1)

JSONQuote(str) == <<Quote>> \o EscapeFrom(str, 1) \o <<Quote>>

\* encoding/json string unescaping; <<"!">> marks a text that is no string
BadText == <<"!">>

RECURSIVE UnescapeFrom(_, _, _)
UnescapeFrom(text, i, hi) ==
    IF i > hi THEN <<>>
    ELSE IF text[i] = Quote THEN BadText
    ELSE IF text[i] # Backslash
         THEN LET rest == UnescapeFrom(text, i + 1, hi)
              IN IF rest = BadText THEN BadText ELSE <<text[i]>> \o rest
    ELSE IF i + 1 > hi THEN BadText
    ELSE IF text[i + 1] \in {Quote, Backslash}
         THEN LET rest == UnescapeFrom(text, i + 2, hi)
              IN IF rest = BadText THEN BadText ELSE <<text[i + 1]>> \o rest
    ELSE IF /\ text[i + 1] = "u"
            /\ i + 5 <= hi
            /\ SubSeq(text, i + 2, i + 5) = <<"0", "0", "3", "c">>
         THEN LET rest == UnescapeFrom(text, i + 6, hi)
              IN IF rest = BadText THEN BadText ELSE <<"<">> \o rest
    ELSE BadText

JSONUnquote(text) ==
    IF Len(text) < 2 \/ text[1] # Quote \/ text[Len(text)] # Quote
    THEN BadText
    ELSE UnescapeFrom(text, 2, Len(text) - 1)

\* a JSON number read into interface{} is a float64, and int64(exp) takes
\* it back; a float64 holds every integer below 2^53 exactly, which covers
\* every Unix time the model's integers can express
ToFloat64(n) == n

\* one member of the claims object: a JSON string (its text), a JSON number
\* or no member at all
StrMember(str) == [t |-> "string", text |-> JSONQuote(str), num |-> 0]
NumMember(n) == [t |-> "number", text |-> <<>>, num |-> n]
NoMember == [t |-> "absent", text |-> <<>>, num |-> 0]

\* the key both functions sign and verify with
SecretKey(env) == IF env = "" THEN DefaultSecret ELSE env

\* HMAC over "header.payload": equal MACs only for equal inputs
MAC(alg, key, claims) == [alg |-> alg, key |-> key, over |-> claims]

generateSessionToken(uid, email, t, env) ==
    LET claims == [uid |-> StrMember(uid), email |-> StrMember(email),
                   exp |-> NumMember(t + SessionTTL), iat |-> NumMember(t)]
    IN [alg |-> "HS256", claims |-> claims,
        sig |-> [mac |-> MAC("HS256", SecretKey(env), claims), pad |-> 0]]

\* MapClaims.Valid of jwt/v4: exp and iat are checked when present
\* (v4.0.0 accepts now = exp, later v4 releases reject it)
ClaimsExpired(claims, t, strict) ==
    CASE claims.exp.t = "absent" -> FALSE
      [] claims.exp.t = "string" -> TRUE
      [] OTHER -> IF strict THEN t >= ToFloat64(claims.exp.num)
                            ELSE t > ToFloat64(claims.exp.num)

ClaimsUsedBeforeIssued(claims, t) ==
    CASE claims.iat.t = "absent" -> FALSE
      [] claims.iat.t = "string" -> TRUE
      [] OTHER -> t < ToFloat64(claims.iat.num)

\* HMAC Verify: the segment is decoded with base64.RawURLEncoding, not
\* strict, so the two spare bits are dropped before the comparison
SignatureValid(token, key) ==
    token.sig.mac = MAC(token.alg, key, token.claims)

Rejected(err) == [ok |-> FALSE, err |-> err, uid |-> <<>>, email |-> <<>>]

\* a validator that returns the claim text without unescaping it
validateSessionTokenRaw(token, t, env, strict) ==
    IF token.alg \notin HMACAlgs THEN Rejected("Unverifiable")
    ELSE IF ~SignatureValid(token, SecretKey(env)) THEN Rejected("BadSignature")
    ELSE IF ClaimsExpired(token.claims, t, strict) THEN Rejected("Expired")
    ELSE [ok |-> TRUE, err |-> "",
          uid |-> SubSeq(token.claims.uid.text, 2, Len(token.claims.uid.text) - 1),
          email |-> SubSeq(token.claims.email.text, 2, Len(token.claims.email.text) - 1)]

\* a validator without any expiry check
validateSessionTokenNoExpiry(token, t, env, strict) ==
    IF token.alg \notin HMACAlgs THEN Rejected("Unverifiable")
    ELSE IF ~SignatureValid(token, SecretKey(env)) THEN Rejected("BadSignature")
    ELSE [ok |-> TRUE, err |-> "", uid |-> JSONUnquote(token.claims.uid.text),
          email |-> JSONUnquote(token.claims.email.text)]

\* jwt.Parse (key function, claims validation, signature) and then the
\* type assertions and the expiry comparison of validateSessionToken
validateSessionToken(token, t, env, strict) ==
    IF token.alg \notin HMACAlgs THEN Rejected("Unverifiable")
    ELSE IF ~SignatureValid(token, SecretKey(env)) THEN Rejected("BadSignature")
    ELSE IF ClaimsExpired(token.claims, t, strict) THEN Rejected("Expired")
    ELSE IF ClaimsUsedBeforeIssued(token.claims, t) THEN Rejected("UsedBeforeIssued")
    ELSE IF token.claims.uid.t # "string" THEN Rejected("MalformedToken")
    ELSE IF token.claims.email.t # "string" THEN Rejected("MalformedToken")
    ELSE IF token.claims.exp.t # "number" THEN Rejected("MalformedToken")
    ELSE IF t > ToFloat64(token.claims.exp.num) THEN Rejected("Expired")
    ELSE [ok |-> TRUE, err |-> "", uid |-> JSONUnquote(token.claims.uid.text),
          email |-> JSONUnquote(token.claims.email.text)]

(***************************************************************************)
(* Bounds and input sets                                                   *)
(***************************************************************************)
MaxCalls == 4
MaxSlack == 1
MaxSteps == 4
MaxDocBindings == 2
MaxGated == 2
MaxDerive == 3
MaxTokens == 2
MaxTaskSaves == 2

BindUids == {"u1", "u2"}
BindEmails == {"a@x.com", "b@x.com"}
BindKinds == KindSet \cup {"facebook"}

(***************************************************************************)
(* SpecBinding                                                             *)
(***************************************************************************)
StoreIdle ==
    /\ users = <<>>
    /\ user_data = <<>>
    /\ authUsers = <<>>
    /\ sessions = {}
    /\ profile = <<>>
    /\ pre = None
    /\ last = None
    /\ steps = 0

SessIdle ==
    /\ now = 0
    /\ jwtSecretEnv = ""
    /\ jwtStrictExp = FALSE
    /\ tok = None
    /\ tokMint = None
    /\ vres = None

NoResolve == [called |-> FALSE, email |-> "", found |-> FALSE, uid |-> ""]

NoGate == [header |-> "none"]

ResolveIdle == resolved = NoResolve

GateIdle == gate = NoGate

NoRoute == [router |-> "none"]

RouteIdle == route = NoRoute

RaceProcs == {"p1", "p2"}

NoLink == [pc |-> "idle", uid |-> "", provider |-> "", email |-> "",
           doc |-> DefaultUserData(""), seen |-> 0, wrote |-> 0, status |-> 0]

RaceIdle == race = [p \in RaceProcs |-> NoLink]

VerifyProcs == {"v1", "v2"}

NoClean == [pc |-> "idle", at |-> 0, tokens0 |-> <<>>]

NoVerify == [pc |-> "idle", token |-> "", uid |-> "", expired |-> FALSE,
             result |-> ""]

CleanupIdle ==
    /\ vtokens = <<>>
    /\ clean = NoClean
    /\ verifs = [p \in VerifyProcs |-> NoVerify]
    /\ deletions = {}

TaskIdle == tasks = <<>> /\ tlast = [status |-> 0]

ExtIdle == RouteIdle /\ RaceIdle /\ CleanupIdle /\ TaskIdle

BindIdle ==
    /\ userData = DefaultUserData("")
    /\ bPrev = DefaultUserData("")
    /\ bArgs = <<>>
    /\ bRepeat = FALSE
    /\ bCalls = 0

InitBinding ==
    /\ userData = DefaultUserData("u1")
    /\ bPrev = DefaultUserData("u1")
    /\ bArgs = <<>>
    /\ bRepeat = FALSE
    /\ bCalls = 0
    /\ StoreIdle
    /\ SessIdle
    /\ ResolveIdle
    /\ GateIdle
    /\ ExtIdle

AddBinding(kind, uid, email) ==
    /\ bCalls < MaxCalls
    /\ userData' = addBinding(userData, kind, uid, email)
    /\ bPrev' = userData
    /\ bArgs' = <<kind, uid, email>>
    /\ bRepeat' = (bArgs = <<kind, uid, email>>)
    /\ bCalls' = bCalls + 1
    /\ UNCHANGED <<storeVars, sessVars, resolveVars, gateVars, extVars>>

NextBinding ==
    \E kind \in BindKinds, uid \in BindUids, email \in BindEmails :
        AddBinding(kind, uid, email)

SpecBinding == InitBinding /\ [][NextBinding]_vars

(***************************************************************************)
(* Identity Store Adapter and Identity Resolver.  A collection is a        *)
(* function from document id to document.  The resolver reads collection   *)
(* "users"; saveUserDataToFirestore writes collection "user_data".         *)
(***************************************************************************)
EmptyColl == [k \in {} |-> 0]

Emails == {"e1@x.com", "e2@x.com"}
PasswordUids == {"u1"}
GoogleIDs == {"42"}
TwitterIDs == {"7"}
GitHubIDs == {"9"}

GoogleUID(id) == "google_" \o id
\* a Twitter uid that reuses the prefix of the Google one
TwitterUIDShared(id) == "google_" \o id
TwitterUID(id) == "twitter:" \o id
GitHubUID(id) == "github_" \o id

\* the document ids of the model in Firestore's order (by id, bytewise)
DocOrder == <<"github_9", "google_42", "twitter:7", "u1">>

FirstKey(keys) ==
    DocOrder[CHOOSE i \in 1..Len(DocOrder) :
                /\ DocOrder[i] \in keys
                /\ \A j \in 1..(i - 1) : DocOrder[j] \notin keys]

\* the binding fields of a document: UserData stores each of them as an
\* array of {userUID, emailAddress} maps
ArrayFields == {"email", "google", "github", "twitter"}

\* the values the field path "<field>.<sub>" addresses in a document: a
\* field path descends through maps only, never into the members of an
\* array, so on a binding field it addresses nothing
PathValues(doc, field, sub) ==
    IF field \in ArrayFields THEN {} ELSE {doc[field][sub]}

\* usersRef.Where("<field>.<sub>", "==", value).Limit(1): the documents
\* with that value at the field path, first by document id
QueryFirst(coll, field, sub, value) ==
    LET hits == {k \in DOMAIN coll : value \in PathValues(coll[k], field, sub)}
    IN IF hits = {} THEN <<>> ELSE <<coll[FirstKey(hits)]>>

\* the first non-empty query result, probing the lists in the given order
RECURSIVE ProbeFrom(_, _, _, _, _)
ProbeFrom(coll, fields, i, sub, value) ==
    IF i > Len(fields) THEN <<>>
    ELSE LET docs == QueryFirst(coll, fields[i], sub, value)
         IN IF Len(docs) > 0 THEN docs
            ELSE ProbeFrom(coll, fields, i + 1, sub, value)

\* email (password), google, github, twitter; an error when nothing matches
findOrCreateUserDataByEmail(coll, email) ==
    LET docs == ProbeFrom(coll, <<"email", "google", "github", "twitter">>, 1,
                          "emailAddress", email)
    IN IF Len(docs) > 0
       THEN [found |-> TRUE, data |-> docs[1]]
       ELSE [found |-> FALSE, data |-> DefaultUserData("")]

\* a lookup whose default identity carries no uid
getUserDataByUIDBlank(coll, uid) ==
    IF uid \in DOMAIN coll THEN coll[uid]
    ELSE LET docs == ProbeFrom(coll, <<"google", "github", "twitter", "email">>, 1,
                               "userUID", uid)
         IN IF Len(docs) > 0 THEN docs[1] ELSE DefaultUserData("")

\* the document keyed uid, else the first document found by provider uid
\* (google, github, twitter, email), else the default identity; never an
\* error
getUserDataByUID(coll, uid) ==
    IF uid \in DOMAIN coll THEN coll[uid]
    ELSE LET docs == ProbeFrom(coll, <<"google", "github", "twitter", "email">>, 1,
                               "userUID", uid)
         IN IF Len(docs) > 0 THEN docs[1] ELSE DefaultUserData(uid)

\* a write that merges the binding lists of the stored document into the
\* one written
saveUserDataToFirestoreUnion(coll, uid, d, writeOK) ==
    IF ~writeOK THEN coll
    ELSE IF uid \notin DOMAIN coll THEN (uid :> d) @@ coll
    ELSE LET old == coll[uid]
             Merge(f) == d[f] \o SelectSeq(old[f], LAMBDA b : b \notin Range(d[f]))
         IN (uid :> [d EXCEPT !.email = Merge("email"), !.google = Merge("google"),
                              !.github = Merge("github"),
                              !.twitter = Merge("twitter")]) @@ coll

\* Doc(uid).Set(ctx, userData) on collection "user_data"; the write may fail
saveUserDataToFirestore(coll, uid, d, writeOK) ==
    IF writeOK THEN (uid :> d) @@ coll ELSE coll

(***************************************************************************)
(* Firebase Auth                                                           *)
(***************************************************************************)
AuthRecord(email, verified, providers) ==
    [email |-> email, emailVerified |-> verified, providers |-> providers]

GetUserByEmail(email) == {u \in DOMAIN authUsers : authUsers[u].email = email}

\* ProviderUserInfo of a record created with an email and no password: the
\* service may or may not list the "password" provider for it
CreatedProviders == {{}, {"password"}}

(***************************************************************************)
(* Spec: the request handlers                                              *)
(***************************************************************************)
LegacyName == "legacy"
LegacyColor == "#111111"

LegacyDoc(uid, kind, email) ==
    [DefaultUserData(uid) EXCEPT !.userName = LegacyName,
                                 !.userColor = LegacyColor,
                                 ![ListField(kind)] = <<ProviderInfo(uid, email)>>]

\* what an earlier deployment may have left in "users" and in Firebase Auth
LegacyStores ==
    { [users |-> ("u1" :> LegacyDoc("u1", "password", "e1@x.com"))
                   @@ ("google_42" :> LegacyDoc("google_42", "google", "e1@x.com")),
       authUsers |-> ("u1" :> AuthRecord("e1@x.com", TRUE, {"password"}))
                   @@ ("google_42" :> AuthRecord("e2@x.com", TRUE, {}))],
      [users |-> ("u1" :> LegacyDoc("u1", "github", "e2@x.com"))
                   @@ ("google_42" :> LegacyDoc("google_42", "twitter", "e2@x.com")),
       authUsers |-> ("u1" :> AuthRecord("e1@x.com", TRUE, {"password"}))
                   @@ ("google_42" :> AuthRecord("e2@x.com", TRUE, {}))] }

\* no token in the response
NoSessionToken == [kind |-> "none", uid |-> "", email |-> ""]

\* a request and its response: the endpoint, the uid it acts for, the
\* provider named, the email the request worked with, the status, the
\* error, the uid answered; whether a Credential Provider Adapter verified
\* a credential in the request; the outcome of the identity-document write
NoRequest == [op |-> "", target |-> "", provider |-> "", email |-> "",
              status |-> 0, error |-> "", uid |-> "",
              verified |-> FALSE, write |-> "none", token |-> NoSessionToken,
     pid |-> ""]

\* a fresh deployment: both collections and Firebase Auth are empty
Init ==
    /\ users = EmptyColl
    /\ authUsers = EmptyColl
    /\ user_data = EmptyColl
    /\ sessions = {}
    /\ profile = EmptyColl
    /\ pre = [user_data |-> EmptyColl, authUsers |-> EmptyColl]
    /\ last = NoRequest
    /\ steps = 0
    /\ BindIdle
    /\ SessIdle
    /\ ResolveIdle
    /\ GateIdle
    /\ ExtIdle

\* a deployment that took over stores an earlier one had filled
InitLegacy ==
    /\ \E l \in LegacyStores : users = l.users /\ authUsers = l.authUsers
    /\ user_data = EmptyColl
    /\ sessions = {}
    /\ profile = EmptyColl
    /\ pre = [user_data |-> EmptyColl, authUsers |-> authUsers]
    /\ last = NoRequest
    /\ steps = 0
    /\ BindIdle
    /\ SessIdle
    /\ ResolveIdle
    /\ GateIdle
    /\ ExtIdle

\* bookkeeping every handler shares: one more request, the stores as they
\* were, the request and its response
Handled(req) ==
    /\ steps < MaxSteps
    /\ steps' = steps + 1
    /\ pre' = [user_data |-> user_data, authUsers |-> authUsers]
    /\ last' = req
    /\ UNCHANGED <<users, bindVars, sessVars, resolveVars>>

Response(op, target, provider, email, status, error, uid) ==
    [op |-> op, target |-> target, provider |-> provider, email |-> email,
     status |-> status, error |-> error, uid |-> uid,
     verified |-> FALSE, write |-> "none", token |-> NoSessionToken,
     pid |-> ""]

\* the response carries sessionToken = generateSessionToken(uid, email)
Issued(resp, uid, email) ==
    [resp EXCEPT !.token = [kind |-> "session", uid |-> uid, email |-> email]]

\* the response carries customToken = authClient.CustomToken(uid), a
\* Firebase token validateSessionToken does not accept
IssuedCustom(resp, uid) ==
    [resp EXCEPT !.token = [kind |-> "custom", uid |-> uid, email |-> ""]]

WriteOutcome(writeOK) == IF writeOK THEN "ok" ELSE "failed"

\* a login that answers 500 when the identity document could not be
\* written
OAuthResponseStrict(id, provider, target, email, status, error, uid, write) ==
    IF write = "failed"
    THEN [Response(provider, target, provider, email, 500, "store", "")
            EXCEPT !.verified = TRUE, !.write = write, !.pid = id]
    ELSE [Response(provider, target, provider, email, status, error, uid)
            EXCEPT !.verified = TRUE, !.write = write, !.pid = id]

\* the response of a login whose code exchange and profile fetch succeeded
OAuthResponse(id, provider, target, email, status, error, uid, write) ==
    [Response(provider, target, provider, email, status, error, uid)
        EXCEPT !.verified = TRUE, !.write = write, !.pid = id]

\* POST /api/signup: Firebase creates the password user under a uid of its
\* own choice; no identity document is written
Signup(email, uid) ==
    /\ uid \in PasswordUids
    /\ IF GetUserByEmail(email) # {} \/ uid \in DOMAIN authUsers
       THEN /\ GetUserByEmail(email) # {}
            /\ UNCHANGED authUsers
            /\ Handled(Response("signup", "", "", email, 409, "email exists", ""))
       ELSE /\ authUsers' = (uid :> AuthRecord(email, FALSE, {"password"})) @@ authUsers
            /\ Handled(Response("signup", "", "", email, 201, "", uid))
    /\ UNCHANGED <<user_data, sessions, profile, gateVars, extVars>>

\* POST /api/login: the auth service verifies the password; a session is
\* issued for the uid it returns
Login(email, passwordOK) ==
    /\ LET found == {u \in GetUserByEmail(email) : "password" \in authUsers[u].providers}
       IN IF passwordOK /\ found # {}
          THEN \E u \in found :
                  /\ sessions' = sessions \cup {u}
                  /\ Handled(Issued(Response("login", "", "", email, 200, "", u),
                                     u, email))
          ELSE /\ UNCHANGED sessions
               /\ Handled(Response("login", "", "", email, 401, "bad credentials", ""))
    /\ UNCHANGED <<user_data, authUsers, profile, gateVars, extVars>>

\* a login that never looks the email up and always creates the account
\* derived from the provider's user id
OAuthLoginNoReuse(provider, id, newUID, email, linkUID, writeOK, verifyOnReuse) ==
    IF newUID \in DOMAIN authUsers
    THEN /\ UNCHANGED <<user_data, authUsers>>
         /\ sessions' = sessions \cup {newUID}
         /\ Handled(Issued(OAuthResponse(id, provider, "", email, 200, "", newUID, "none"),
                                 newUID, email))
    ELSE LET d == addOAuthProvider(DefaultUserData(newUID), provider, email, newUID)
         IN /\ authUsers' = (newUID :> AuthRecord(email, TRUE, {})) @@ authUsers
            /\ user_data' = saveUserDataToFirestore(user_data, newUID, d, writeOK)
            /\ sessions' = sessions \cup {newUID}
            /\ Handled(Issued(OAuthResponse(id, provider, "", email, 200, "", newUID,
                                     WriteOutcome(writeOK)),
                                        newUID, email))

\* createOrGetFirebaseUser / createOrGetFirebaseUserForTwitter behind
\* POST /api/auth/google and /api/auth/twitter.  newUID is the uid derived
\* from the provider's user id; verifyOnReuse: the Google variant marks a
\* reused record verified when it lists no google.com provider.
OAuthLogin(provider, id, newUID, email, linkUID, writeOK, verifyOnReuse) ==
    IF linkUID # ""
    THEN IF linkUID \notin DOMAIN authUsers
         THEN /\ UNCHANGED <<user_data, authUsers, sessions>>
              /\ Handled(OAuthResponse(id, provider, linkUID, email, 500,
                                       "link target not found", "", "none"))
         ELSE LET d == addOAuthProvider(getUserDataByUID(users, linkUID),
                                        provider, email, linkUID)
              IN /\ user_data' = saveUserDataToFirestore(user_data, linkUID, d, writeOK)
                 /\ sessions' = sessions \cup {linkUID}
                 /\ UNCHANGED authUsers
                 /\ Handled(Issued(OAuthResponse(id, provider, linkUID, email, 200, "", linkUID,
                                          WriteOutcome(writeOK)),
                                             linkUID, email))
    ELSE IF GetUserByEmail(email) = {}
    THEN IF newUID \in DOMAIN authUsers
         THEN /\ UNCHANGED <<user_data, authUsers, sessions>>
              /\ Handled(OAuthResponse(id, provider, "", email, 500,
                                       "create user failed", "", "none"))
         ELSE \E provs \in CreatedProviders :
                LET d == addOAuthProvider(DefaultUserData(newUID), provider, email, newUID)
                IN /\ authUsers' = (newUID :> AuthRecord(email, TRUE, provs)) @@ authUsers
                   /\ user_data' = saveUserDataToFirestore(user_data, newUID, d, writeOK)
                   /\ sessions' = sessions \cup {newUID}
                   /\ Handled(Issued(OAuthResponse(id, provider, "", email, 200, "", newUID,
                                            WriteOutcome(writeOK)),
                                               newUID, email))
    ELSE \E u \in GetUserByEmail(email) :
           LET got == getUserDataByUID(users, u)
               d == addOAuthProvider([got EXCEPT !.uid = u], provider, email, u)
           IN /\ user_data' = saveUserDataToFirestore(user_data, u, d, writeOK)
              /\ authUsers' = IF verifyOnReuse
                              THEN [authUsers EXCEPT ![u].emailVerified = TRUE]
                              ELSE authUsers
              /\ sessions' = sessions \cup {u}
              /\ Handled(Issued(OAuthResponse(id, provider, "", email, 200, "", u,
                                       WriteOutcome(writeOK)),
                                          u, email))

\* POST /api/auth/google
GoogleAuth(id, email, credentialOK, verifiedEmail, linkUID, writeOK, updateOK) ==
    /\ IF ~credentialOK \/ ~verifiedEmail
       THEN /\ UNCHANGED <<user_data, authUsers, sessions>>
            /\ Handled(Response("google", linkUID, "google", email, 400,
                                "credential rejected", ""))
       ELSE OAuthLogin("google", id, GoogleUID(id), email, linkUID, writeOK, updateOK)
    /\ UNCHANGED <<profile, gateVars, extVars>>

\* POST /api/auth/twitter
TwitterAuth(id, email, credentialOK, linkUID, writeOK) ==
    /\ IF ~credentialOK \/ email = ""
       THEN /\ UNCHANGED <<user_data, authUsers, sessions>>
            /\ Handled(Response("twitter", linkUID, "twitter", email, 400,
                                "credential rejected", ""))
       ELSE OAuthLogin("twitter", id, TwitterUID(id), email, linkUID, writeOK, FALSE)
    /\ UNCHANGED <<profile, gateVars, extVars>>

\* POST /api/auth/github (createOrGetFirebaseUserForGitHub): the auth
\* record of the email is reused or one is created under "github_<id>"; no
\* identity document is read or written, and the answer carries a Firebase
\* custom token, not a session token
GitHubAuth(id, email, credentialOK, updateOK) ==
    /\ IF ~credentialOK \/ email = ""
       THEN /\ UNCHANGED authUsers
            /\ Handled(Response("github", "", "github", email, 400,
                                "credential rejected", ""))
       ELSE IF GetUserByEmail(email) = {}
       THEN IF GitHubUID(id) \in DOMAIN authUsers
            THEN /\ UNCHANGED authUsers
                 /\ Handled(OAuthResponse(id, "github", "", email, 500,
                                          "create user failed", "", "none"))
            ELSE \E provs \in CreatedProviders :
                   /\ authUsers' = (GitHubUID(id) :> AuthRecord(email, TRUE, provs))
                                       @@ authUsers
                   /\ Handled(IssuedCustom(OAuthResponse(id, "github", "", email, 200, "",
                                                         GitHubUID(id), "none"),
                                           GitHubUID(id)))
       ELSE \E u \in GetUserByEmail(email) :
              /\ authUsers' = IF updateOK
                              THEN [authUsers EXCEPT ![u].emailVerified = TRUE]
                              ELSE authUsers
              /\ Handled(IssuedCustom(OAuthResponse(id, "github", "", email, 200, "", u,
                                                    "none"), u))
    /\ UNCHANGED <<user_data, sessions, profile, gateVars, extVars>>

\* processUserDataSaveRequest for the uid of the request's token
processUserDataSaveRequest(uid, userName, userColor, writeOK) ==
    /\ IF userName = "" \/ userColor = ""
       THEN /\ UNCHANGED <<user_data, profile>>
            /\ Handled(Response("profile", uid, "", "", 400, "validation", ""))
       ELSE LET got == getUserDataByUID(users, uid)
                d == [got EXCEPT !.userName = userName,
                                 !.userColor = userColor,
                                 !.uid = uid]
            IN /\ user_data' = saveUserDataToFirestore(user_data, uid, d, writeOK)
               /\ IF writeOK
                  THEN /\ profile' = (uid :> [userName |-> userName,
                                              userColor |-> userColor]) @@ profile
                       /\ Handled([Response("profile", uid, "", "", 200, "", uid)
                                      EXCEPT !.write = "ok"])
                  ELSE /\ UNCHANGED profile
                       /\ Handled([Response("profile", uid, "", "", 500, "store", "")
                                      EXCEPT !.write = "failed"])
    /\ UNCHANGED <<authUsers, sessions>>

\* POST /api/user-data by the holder of a session for uid
UserDataSave(uid, userName, userColor, writeOK) ==
    /\ uid \in sessions
    /\ processUserDataSaveRequest(uid, userName, userColor, writeOK)
    /\ UNCHANGED <<gateVars, extVars>>

\* processLinkAccountRequest with linkGoogleAccount, linkGitHubAccount and
\* linkTwitterAccount, for the uid of the request's token.  The credential
\* of the request is handed to the link function, which never uses it: the
\* binding is made of the uid and the email of the caller's auth record.
processLinkAccountRequest(uid, provider, credential, writeOK) ==
    /\ IF provider = ""
       THEN /\ UNCHANGED user_data
            /\ Handled(Response("link", uid, provider, "", 400, "validation", ""))
       ELSE IF uid \notin DOMAIN authUsers
       THEN /\ UNCHANGED user_data
            /\ Handled(Response("link", uid, provider, "", 500, "user not found", ""))
       ELSE IF provider \in authUsers[uid].providers
       THEN /\ UNCHANGED user_data
            /\ Handled(Response("link", uid, provider, "", 400, "already linked", ""))
       ELSE IF provider \notin OAuthProviders
       THEN /\ UNCHANGED user_data
            /\ Handled(Response("link", uid, provider, "", 400, "unsupported", ""))
       ELSE LET d == addOAuthProvider(getUserDataByUID(users, uid), provider,
                                      authUsers[uid].email, uid)
            IN /\ user_data' = saveUserDataToFirestore(user_data, uid, d, writeOK)
               /\ IF writeOK
                  THEN Handled([Response("link", uid, provider, authUsers[uid].email,
                                         200, "", uid) EXCEPT !.write = "ok"])
                  ELSE Handled([Response("link", uid, provider, authUsers[uid].email,
                                         500, "store", "") EXCEPT !.write = "failed"])
    /\ UNCHANGED <<authUsers, sessions, profile>>

\* POST /api/link-account by the holder of a session for uid
LinkAccount(uid, provider, credential, writeOK) ==
    /\ uid \in sessions
    /\ processLinkAccountRequest(uid, provider, credential, writeOK)
    /\ UNCHANGED <<gateVars, extVars>>

\* processUnlinkAccountRequest for the uid of the request's token
processUnlinkAccountRequest(uid, provider) ==
    /\ IF provider = ""
       THEN Handled(Response("unlink", uid, provider, "", 400, "validation", ""))
       ELSE IF uid \notin DOMAIN authUsers
       THEN Handled(Response("unlink", uid, provider, "", 500, "user not found", ""))
       ELSE IF provider \notin authUsers[uid].providers
       THEN Handled(Response("unlink", uid, provider, "", 400, "not linked", ""))
       ELSE IF Cardinality(authUsers[uid].providers) <= 1
       THEN Handled(Response("unlink", uid, provider, "", 400, "last auth method", ""))
       ELSE Handled(Response("unlink", uid, provider, "", 501, "not implemented", ""))
    /\ UNCHANGED <<user_data, authUsers, sessions, profile>>

\* POST /api/unlink-account by the holder of a session for uid
UnlinkAccount(uid, provider) ==
    /\ uid \in sessions
    /\ processUnlinkAccountRequest(uid, provider)
    /\ UNCHANGED <<gateVars, extVars>>

AllUids == PasswordUids \cup {GoogleUID(i) : i \in GoogleIDs}
               \cup {TwitterUID(i) : i \in TwitterIDs}
               \cup {GitHubUID(i) : i \in GitHubIDs}
ProfileNames == {"", "alice"}
ProfileColors == {"#ff0000"}
RequestProviders == KindSet \cup {""}
Credentials == {"", "code"}

Next ==
    \/ \E email \in Emails, uid \in PasswordUids : Signup(email, uid)
    \/ \E email \in Emails, passwordOK \in BOOLEAN : Login(email, passwordOK)
    \/ \E id \in GoogleIDs, email \in Emails, credentialOK, verifiedEmail \in BOOLEAN,
          linkUID \in AllUids \cup {""}, writeOK, updateOK \in BOOLEAN :
          GoogleAuth(id, email, credentialOK, verifiedEmail, linkUID, writeOK, updateOK)
    \/ \E id \in TwitterIDs, email \in Emails \cup {""}, credentialOK \in BOOLEAN,
          linkUID \in AllUids \cup {""}, writeOK \in BOOLEAN :
          TwitterAuth(id, email, credentialOK, linkUID, writeOK)
    \/ \E id \in GitHubIDs, email \in Emails \cup {""}, credentialOK, updateOK \in BOOLEAN :
          GitHubAuth(id, email, credentialOK, updateOK)
    \/ \E uid \in AllUids, userName \in ProfileNames, userColor \in ProfileColors,
          writeOK \in BOOLEAN : UserDataSave(uid, userName, userColor, writeOK)
    \/ \E uid \in AllUids, provider \in RequestProviders,
          credential \in Credentials, writeOK \in BOOLEAN :
          LinkAccount(uid, provider, credential, writeOK)
    \/ \E uid \in AllUids, provider \in RequestProviders : UnlinkAccount(uid, provider)

Spec == Init /\ [][Next]_vars

SpecLegacy == InitLegacy /\ [][Next]_vars

\* signups and logins only: no request names a linkUID and no
\* authenticated endpoint is called
NextLogin ==
    \/ \E email \in Emails, uid \in PasswordUids : Signup(email, uid)
    \/ \E email \in Emails, passwordOK \in BOOLEAN : Login(email, passwordOK)
    \/ \E id \in GoogleIDs, email \in Emails, credentialOK, verifiedEmail \in BOOLEAN,
          writeOK, updateOK \in BOOLEAN :
          GoogleAuth(id, email, credentialOK, verifiedEmail, "", writeOK, updateOK)
    \/ \E id \in TwitterIDs, email \in Emails \cup {""}, credentialOK \in BOOLEAN,
          writeOK \in BOOLEAN :
          TwitterAuth(id, email, credentialOK, "", writeOK)
    \/ \E id \in GitHubIDs, email \in Emails \cup {""}, credentialOK, updateOK \in BOOLEAN :
          GitHubAuth(id, email, credentialOK, updateOK)

SpecLogin == Init /\ [][NextLogin]_vars

\* SpecDerive: OAuth logins without linkUID by several provider accounts,
\* the same account id occurring under more than one provider
DeriveIDs == {"7", "9"}
DeriveEmails == {"e1@x.com", "e2@x.com", "e3@x.com"}

NextDerive ==
    /\ steps < MaxDerive
    /\ \E id \in DeriveIDs, email \in DeriveEmails,
          credentialOK, writeOK \in BOOLEAN :
          \/ GoogleAuth(id, email, credentialOK, TRUE, "", writeOK, TRUE)
          \/ TwitterAuth(id, email, credentialOK, "", writeOK)
          \/ GitHubAuth(id, email, credentialOK, TRUE)

SpecDerive == Init /\ [][NextDerive]_vars

(***************************************************************************)
(* SpecResolve: findOrCreateUserDataByEmail over the collections it may    *)
(* find in "users"                                                         *)
(***************************************************************************)
NoEmail == "-"

\* the documents for one uid: at most MaxDocBindings kinds bound, one entry
\* each
DocsFor(uid) ==
    { [DefaultUserData(uid) EXCEPT
          !.email = IF sel["password"] = NoEmail THEN <<>>
                    ELSE <<ProviderInfo(uid, sel["password"])>>,
          !.google = IF sel["google"] = NoEmail THEN <<>>
                     ELSE <<ProviderInfo(uid, sel["google"])>>,
          !.github = IF sel["github"] = NoEmail THEN <<>>
                     ELSE <<ProviderInfo(uid, sel["github"])>>,
          !.twitter = IF sel["twitter"] = NoEmail THEN <<>>
                      ELSE <<ProviderInfo(uid, sel["twitter"])>>] :
        sel \in {f \in [KindSet -> Emails \cup {NoEmail}] :
                    Cardinality({k \in KindSet : f[k] # NoEmail}) <= MaxDocBindings} }

InitResolve ==
    /\ \E d1 \in DocsFor("u1"), d2 \in DocsFor("google_42") :
          users = ("u1" :> d1) @@ ("google_42" :> d2)
    /\ user_data = EmptyColl
    /\ authUsers = EmptyColl
    /\ sessions = {}
    /\ profile = EmptyColl
    /\ pre = [user_data |-> EmptyColl, authUsers |-> EmptyColl]
    /\ last = NoRequest
    /\ steps = 0
    /\ resolved = NoResolve
    /\ GateIdle
    /\ ExtIdle
    /\ BindIdle
    /\ SessIdle

ResolveByEmail(email) ==
    /\ LET r == findOrCreateUserDataByEmail(users, email)
       IN resolved' = [called |-> TRUE, email |-> email, found |-> r.found,
                       uid |-> r.data.uid]
    /\ UNCHANGED <<storeVars, bindVars, sessVars, gateVars, extVars>>

NextResolve == \E email \in Emails : ResolveByEmail(email)

SpecResolve == InitResolve /\ [][NextResolve]_vars

(***************************************************************************)
(* SpecSession: a clock, one token, the changes an attacker without the    *)
(* key can make to it, and the validator                                   *)
(***************************************************************************)
\* the instants the clock is sampled at: around the minting times and
\* around the expiry of a token minted at each of them
Instants ==
    (0..MaxSlack)
        \cup {SessionTTL + d - 1 : d \in 0..(MaxSlack + 2)}
        \cup {2 * SessionTTL + MaxSlack}

SessUids == {<<"u", "1">>, <<"g", Quote>>, <<"<", Backslash>>}
SessEmails == {<<"a", "@", "b">>, <<Quote, "@", "b">>}
SessSecrets == {"", "s3cret"}
AttackerKeys == {"guess", DefaultSecret}

NoClaims == [uid |-> NoMember, email |-> NoMember, exp |-> NoMember, iat |-> NoMember]
NoToken == [alg |-> "", claims |-> NoClaims,
            sig |-> [mac |-> MAC("", "", NoClaims), pad |-> 0]]
NoMint == [uid |-> <<>>, email |-> <<>>, iat |-> 0, alt |-> "unminted"]
NoResult == [ok |-> FALSE, err |-> "", uid |-> <<>>, email |-> <<>>,
             at |-> 0, fresh |-> FALSE]

InitSession ==
    /\ now = 0
    /\ jwtSecretEnv \in SessSecrets
    /\ jwtStrictExp \in BOOLEAN
    /\ tok = NoToken
    /\ tokMint = NoMint
    /\ vres = NoResult
    /\ BindIdle
    /\ StoreIdle
    /\ ResolveIdle
    /\ GateIdle
    /\ ExtIdle

Tick(t) ==
    /\ t > now
    /\ now' = t
    /\ UNCHANGED <<jwtSecretEnv, jwtStrictExp, tok, tokMint, vres>>
    /\ UNCHANGED <<bindVars, storeVars, resolveVars, gateVars, extVars>>

MintToken(uid, email) ==
    /\ tok' = generateSessionToken(uid, email, now, jwtSecretEnv)
    /\ tokMint' = [uid |-> uid, email |-> email, iat |-> now, alt |-> "none"]
    /\ vres' = NoResult
    /\ UNCHANGED <<now, jwtSecretEnv, jwtStrictExp>>
    /\ UNCHANGED <<bindVars, storeVars, resolveVars, gateVars, extVars>>

\* the signature bytes are replaced by a MAC made with a key that is not
\* the server's
TamperSignature(key) ==
    /\ tokMint.alt = "none"
    /\ key # SecretKey(jwtSecretEnv)
    /\ tok' = [tok EXCEPT !.sig.mac = MAC(tok.alg, key, tok.claims)]
    /\ tokMint' = [tokMint EXCEPT !.alt = "sig"]
    /\ vres' = NoResult
    /\ UNCHANGED <<now, jwtSecretEnv, jwtStrictExp>>
    /\ UNCHANGED <<bindVars, storeVars, resolveVars, gateVars, extVars>>

\* bits are flipped in the last character of the signature segment only
TamperPadding(p) ==
    /\ tokMint.alt = "none"
    /\ tok' = [tok EXCEPT !.sig.pad = p]
    /\ tokMint' = [tokMint EXCEPT !.alt = "pad"]
    /\ vres' = NoResult
    /\ UNCHANGED <<now, jwtSecretEnv, jwtStrictExp>>
    /\ UNCHANGED <<bindVars, storeVars, resolveVars, gateVars, extVars>>

\* a claim is rewritten and the signature kept
TamperClaim(claims) ==
    /\ tokMint.alt = "none"
    /\ claims # tok.claims
    /\ tok' = [tok EXCEPT !.claims = claims]
    /\ tokMint' = [tokMint EXCEPT !.alt = "claim"]
    /\ vres' = NoResult
    /\ UNCHANGED <<now, jwtSecretEnv, jwtStrictExp>>
    /\ UNCHANGED <<bindVars, storeVars, resolveVars, gateVars, extVars>>

\* the header is rewritten to alg "none" and the signature dropped
TamperHeader ==
    /\ tokMint.alt = "none"
    /\ tok' = [tok EXCEPT !.alg = "none",
                          !.sig = [mac |-> MAC("none", "", tok.claims), pad |-> 0]]
    /\ tokMint' = [tokMint EXCEPT !.alt = "alg"]
    /\ vres' = NoResult
    /\ UNCHANGED <<now, jwtSecretEnv, jwtStrictExp>>
    /\ UNCHANGED <<bindVars, storeVars, resolveVars, gateVars, extVars>>

ValidateToken ==
    /\ tokMint.alt # "unminted"
    /\ LET r == validateSessionToken(tok, now, jwtSecretEnv, jwtStrictExp)
       IN vres' = [ok |-> r.ok, err |-> r.err, uid |-> r.uid, email |-> r.email,
                   at |-> now, fresh |-> TRUE]
    /\ UNCHANGED <<now, jwtSecretEnv, jwtStrictExp, tok, tokMint>>
    /\ UNCHANGED <<bindVars, storeVars, resolveVars, gateVars, extVars>>

\* the rewritten claims an attacker tries: another uid, another email, a
\* later expiry
RewrittenClaims ==
    {[tok.claims EXCEPT !.uid = StrMember(u)] : u \in SessUids}
        \cup {[tok.claims EXCEPT !.email = StrMember(e)] : e \in SessEmails}
        \cup {[tok.claims EXCEPT !.exp = NumMember(@.num + SessionTTL)]}

NextSession ==
    \/ \E t \in Instants : Tick(t)
    \/ \E uid \in SessUids, email \in SessEmails : MintToken(uid, email)
    \/ \E key \in AttackerKeys : TamperSignature(key)
    \/ \E p \in 1..3 : TamperPadding(p)
    \/ \E claims \in RewrittenClaims : TamperClaim(claims)
    \/ TamperHeader
    \/ ValidateToken

SpecSession == InitSession /\ [][NextSession]_vars

(***************************************************************************)
(* SpecGate: the authenticated endpoints behind authMiddleware.  The       *)
(* request carries the token of SpecSession, as minted or as an attacker   *)
(* changed it, in one of three Authorization headers.                      *)
(***************************************************************************)
Headers == {"missing", "malformed", "bearer"}
GateUid == <<"u", "1">>
GateEmail == <<"a", "@", "b">>
GateUids == {GateUid, <<"g", Quote>>}

\* the clock around the expiry of a token minted at the start
GateInstants == {SessionTTL - 1, SessionTTL, SessionTTL + 1}

\* the claims an attacker rewrites: the other uid, a later expiry
GateClaims ==
    {[tok.claims EXCEPT !.uid = StrMember(u)] : u \in GateUids}
        \cup {[tok.claims EXCEPT !.exp = NumMember(@.num + SessionTTL)]}

\* authMiddleware without validateSessionToken: the uid claim of a bearer
\* token is taken as it stands
authMiddlewareNoVerify(header, token, t, env, strict) ==
    IF header # "bearer" THEN Rejected("Unauthorized")
    ELSE [ok |-> TRUE, err |-> "", uid |-> JSONUnquote(token.claims.uid.text),
          email |-> JSONUnquote(token.claims.email.text)]

\* authMiddleware / validateAuthHeader: no header, or one that is not
\* "Bearer <token>", is refused; else validateSessionToken decides
authMiddleware(header, token, t, env, strict) ==
    IF header # "bearer" THEN Rejected("Unauthorized")
    ELSE validateSessionToken(token, t, env, strict)

\* the 401 the middleware writes; the handler is not called
Unauthorized(op) ==
    /\ Handled(Response(op, "", "", "", 401, "unauthorized", ""))
    /\ UNCHANGED <<user_data, authUsers, sessions, profile>>

\* one account exists, created by a password signup
InitGate ==
    /\ now = 0
    /\ jwtSecretEnv \in SessSecrets
    /\ jwtStrictExp \in BOOLEAN
    /\ tok = NoToken
    /\ tokMint = NoMint
    /\ vres = NoResult
    /\ users = EmptyColl
    /\ user_data = EmptyColl
    /\ authUsers = (GateUid :> AuthRecord(GateEmail, FALSE, {"password"}))
    /\ sessions = {}
    /\ profile = EmptyColl
    /\ pre = [user_data |-> EmptyColl, authUsers |-> authUsers]
    /\ last = NoRequest
    /\ steps = 0
    /\ BindIdle
    /\ ResolveIdle
    /\ GateIdle
    /\ ExtIdle

\* the request as it arrived: its header, what validateSessionToken says
\* of its token at that time, what had been done to the token, and whether
\* the token was past its expiry
Gated(header) ==
    /\ steps < MaxGated
    /\ LET v == validateSessionToken(tok, now, jwtSecretEnv, jwtStrictExp)
       IN gate' = [header |-> header, valid |-> v.ok, uid |-> v.uid,
                   alt |-> tokMint.alt,
                   expired |-> now > tokMint.iat + SessionTTL]
    /\ UNCHANGED extVars

\* /api/user-data behind authMiddleware
GatedUserDataSave(header, userName, userColor, writeOK) ==
    LET r == authMiddleware(header, tok, now, jwtSecretEnv, jwtStrictExp)
    IN /\ Gated(header)
       /\ IF r.ok THEN processUserDataSaveRequest(r.uid, userName, userColor, writeOK)
          ELSE Unauthorized("profile")

\* /api/link-account behind authMiddleware
GatedLinkAccount(header, provider, credential, writeOK) ==
    LET r == authMiddleware(header, tok, now, jwtSecretEnv, jwtStrictExp)
    IN /\ Gated(header)
       /\ IF r.ok THEN processLinkAccountRequest(r.uid, provider, credential, writeOK)
          ELSE Unauthorized("link")

\* /api/unlink-account behind authMiddleware
GatedUnlinkAccount(header, provider) ==
    LET r == authMiddleware(header, tok, now, jwtSecretEnv, jwtStrictExp)
    IN /\ Gated(header)
       /\ IF r.ok THEN processUnlinkAccountRequest(r.uid, provider)
          ELSE Unauthorized("unlink")

NextGate ==
    \/ \E t \in GateInstants : Tick(t)
    \/ \E uid \in GateUids : MintToken(uid, GateEmail)
    \/ \E key \in AttackerKeys : TamperSignature(key)
    \/ TamperPadding(1)
    \/ \E claims \in GateClaims : TamperClaim(claims)
    \/ TamperHeader
    \/ \E header \in Headers, userName \in ProfileNames, userColor \in ProfileColors,
          writeOK \in BOOLEAN : GatedUserDataSave(header, userName, userColor, writeOK)
    \/ \E header \in Headers, provider \in {"", "google"}, writeOK \in BOOLEAN :
          GatedLinkAccount(header, provider, "code", writeOK)
    \/ \E header \in Headers, provider \in {"", "password"} :
          GatedUnlinkAccount(header, provider)

SpecGate == InitGate /\ [][NextGate]_vars

(***************************************************************************)
(* SpecRoute: the local router (apiRouter) and the Lambda router (handler) *)
(***************************************************************************)
\* A path is the sequence of the pieces the routers' prefixes are made of,
\* so that strings.HasPrefix is the prefix relation on sequences.
HasPrefix(path, prefix) ==
    /\ Len(prefix) <= Len(path)
    /\ SubSeq(path, 1, Len(prefix)) = prefix

Methods == {"GET", "POST", "OPTIONS", "DELETE"}

ProvidersPath == <<"/api", "/user-pro", "viders">>
ProvidersDetailPath == <<"/api", "/user-pro", "viders", "-detail">>
ProfilePath == <<"/api", "/user-pro", "file">>

\* one branch of a router's if / else-if chain: the prefix tested, the
\* methods the branch accepts, the least number of pieces the handler
\* needs, and the function the branch ends in
Branch(prefix, methods, pieces, target) ==
    [prefix |-> prefix, methods |-> methods, pieces |-> pieces, target |-> target]

NotFound == "NotFound"
MethodNotAllowed == "MethodNotAllowed"

\* apiRouter: the branches in source order; the last three are the method
\* switch inside the /api/task branch
LocalBranches ==
    << Branch(<<"/api", "/time">>, Methods, 0, "handleTimeRequest"),
       Branch(<<"/api", "/signup">>, Methods, 0, "processSignupRequest"),
       Branch(<<"/api", "/login">>, Methods, 0, "processLoginRequest"),
       Branch(<<"/api", "/verify">>, Methods, 0, "ProcessVerifyRequest"),
       Branch(<<"/api", "/cleanup">>, Methods, 0, "ProcessCleanupRequest"),
       Branch(<<"/api", "/user-data">>, Methods, 0, "handleUserDataRequest"),
       Branch(<<"/api", "/auth", "/google">>, Methods, 0, "processGoogleAuthRequest"),
       Branch(<<"/api", "/auth", "/github">>, Methods, 0, "processGitHubAuthRequest"),
       Branch(<<"/api", "/auth", "/twitter">>, Methods, 0, "processTwitterAuthRequest"),
       Branch(ProvidersDetailPath, Methods, 0, "processUserProvidersDetailRequest"),
       Branch(ProvidersPath, Methods, 0, "processUserProvidersRequest"),
       Branch(<<"/api", "/link-account">>, Methods, 0, "processLinkAccountRequest"),
       Branch(<<"/api", "/unlink-account">>, Methods, 0, "processUnlinkAccountRequest"),
       Branch(<<"/api", "/task">>, {"GET"}, 0, "handleTaskGet"),
       Branch(<<"/api", "/task">>, {"POST"}, 0, "handleTaskSave"),
       Branch(<<"/api", "/task">>, Methods, 0, MethodNotAllowed) >>

\* handler of the Lambda build: the branches in source order; the last
\* three are the method switch inside the /api/time branch, whose GET
\* needs a space id after the prefix
LambdaBranches ==
    << Branch(<<"/api", "/signup">>, {"POST"}, 0, "processSignupRequest"),
       Branch(<<"/api", "/login">>, {"POST"}, 0, "processLoginRequest"),
       Branch(<<"/api", "/cleanup">>, {"POST"}, 0, "ProcessCleanupRequest"),
       Branch(<<"/api", "/user-data">>, Methods, 0, "lambdaUserDataHandler"),
       Branch(<<"/api", "/auth", "/google">>, {"POST"}, 0, "processGoogleAuthRequest"),
       Branch(<<"/api", "/auth", "/github">>, {"POST"}, 0, "processGitHubAuthRequest"),
       Branch(<<"/api", "/auth", "/twitter">>, {"POST"}, 0, "processTwitterAuthRequest"),
       Branch(ProvidersPath, {"GET"}, 0, "processUserProvidersRequest"),
       Branch(ProfilePath, {"GET"}, 0, "processUserProfileRequest"),
       Branch(ProvidersDetailPath, {"GET"}, 0, "processUserProvidersDetailRequest"),
       Branch(<<"/email-config">>, {"GET"}, 0, "checkEmailConfig"),
       Branch(<<"/email-debug">>, {"GET"}, 0, "checkEmailDebug"),
       Branch(<<"/api", "/time">>, {"POST"}, 0, "processPostRequest"),
       Branch(<<"/api", "/time">>, {"GET"}, 3, "processGetRequest"),
       Branch(<<"/api", "/time">>, Methods, 0, NotFound) >>

\* the first branch whose condition holds; a branch entered without
\* enough pieces answers as if nothing had matched
RECURSIVE Dispatch(_, _, _, _)
Dispatch(branches, i, path, method) ==
    IF i > Len(branches) THEN NotFound
    ELSE IF HasPrefix(path, branches[i].prefix) /\ method \in branches[i].methods
    THEN IF Len(path) >= branches[i].pieces THEN branches[i].target ELSE NotFound
    ELSE Dispatch(branches, i + 1, path, method)

apiRouter(path, method) == Dispatch(LocalBranches, 1, path, method)

handler(path, method) == Dispatch(LambdaBranches, 1, path, method)

Routers == {"local", "lambda"}

\* the prefixes of both routers, each also with a trailing piece, and two
\* paths no branch accepts
RoutePaths ==
    LET prefixes == {LocalBranches[i].prefix : i \in 1..Len(LocalBranches)}
                    \cup {LambdaBranches[i].prefix : i \in 1..Len(LambdaBranches)}
    IN prefixes \cup {p \o <<"/x">> : p \in prefixes}
                \cup {<<"/api">>, <<"/api", "/user-pro">>}

InitRoute ==
    /\ route = NoRoute
    /\ BindIdle
    /\ StoreIdle
    /\ SessIdle
    /\ ResolveIdle
    /\ GateIdle
    /\ RaceIdle
    /\ CleanupIdle
    /\ TaskIdle

\* one request through one of the routers; the Lambda handler answers an
\* OPTIONS request with the CORS headers after the branch has run
Route(router, path, method) ==
    /\ route' = [router |-> router, path |-> path, method |-> method,
                 target |-> IF router = "local" THEN apiRouter(path, method)
                            ELSE handler(path, method),
                 preflight |-> router = "lambda" /\ method = "OPTIONS"]
    /\ UNCHANGED <<bindVars, storeVars, sessVars, resolveVars, gateVars, raceVars,
                   cleanupVars, taskVars>>

NextRoute ==
    \E router \in Routers, path \in RoutePaths, method \in Methods :
        Route(router, path, method)

SpecRoute == InitRoute /\ [][NextRoute]_vars

(***************************************************************************)
(* SpecRace: two link requests in flight                                   *)
(***************************************************************************)
\* The link branch of createOrGetFirebaseUser and of
\* createOrGetFirebaseUserForTwitter makes three calls in turn:
\* authClient.GetUser, getUserDataByUID and, after adding the binding in
\* memory, saveUserDataToFirestore.  Requests of different processes
\* interleave between the calls.
RaceProviders == {"google", "twitter"}

\* the stores the requests start from: an empty "users" collection, or
\* what an earlier deployment left
RaceStores ==
    LegacyStores \cup
    { [users |-> EmptyColl,
       authUsers |-> ("u1" :> AuthRecord("e1@x.com", TRUE, {"password"}))] }

InitRace ==
    /\ \E l \in RaceStores : users = l.users /\ authUsers = l.authUsers
    /\ user_data = EmptyColl
    /\ sessions = {}
    /\ profile = EmptyColl
    /\ pre = [user_data |-> EmptyColl, authUsers |-> authUsers]
    /\ last = NoRequest
    /\ steps = 0
    /\ RaceIdle
    /\ BindIdle
    /\ SessIdle
    /\ ResolveIdle
    /\ GateIdle
    /\ RouteIdle
    /\ CleanupIdle
    /\ TaskIdle

\* number of documents the requests have written so far
RaceWrites == Cardinality({p \in RaceProcs : race[p].wrote > 0})

\* the request arrives with a verified credential and linkUID;
\* authClient.GetUser(linkUID) answers
LinkStart(p, provider, email, linkUID) ==
    /\ race[p].pc = "idle"
    /\ race' = [race EXCEPT ![p] =
                  IF linkUID \in DOMAIN authUsers
                  THEN [NoLink EXCEPT !.pc = "started", !.uid = linkUID,
                                      !.provider = provider, !.email = email]
                  ELSE [NoLink EXCEPT !.pc = "done", !.uid = linkUID,
                                      !.provider = provider, !.email = email,
                                      !.status = 500]]
    /\ UNCHANGED <<bindVars, storeVars, sessVars, resolveVars, gateVars, routeVars,
                   cleanupVars, taskVars>>

\* getUserDataByUID(linkUID)
LinkRead(p) ==
    /\ race[p].pc = "started"
    /\ race' = [race EXCEPT ![p].pc = "read",
                            ![p].doc = getUserDataByUID(users, race[p].uid),
                            ![p].seen = RaceWrites]
    /\ UNCHANGED <<bindVars, storeVars, sessVars, resolveVars, gateVars, routeVars,
                   cleanupVars, taskVars>>

\* addOAuthProvider on the copy read, saveUserDataToFirestore of the whole
\* document, and the 200 response, which does not depend on the write
LinkWrite(p, writeOK) ==
    /\ race[p].pc = "read"
    /\ LET r == race[p]
           d == addOAuthProvider(r.doc, r.provider, r.email, r.uid)
       IN /\ user_data' = saveUserDataToFirestore(user_data, r.uid, d, writeOK)
          /\ race' = [race EXCEPT ![p].pc = "done",
                                  ![p].status = 200,
                                  ![p].wrote = IF writeOK THEN RaceWrites + 1 ELSE 0]
    /\ UNCHANGED <<users, authUsers, sessions, profile, pre, last, steps>>
    /\ UNCHANGED <<bindVars, sessVars, resolveVars, gateVars, routeVars, cleanupVars,
                   taskVars>>

NextRace ==
    \E p \in RaceProcs :
        \/ \E provider \in RaceProviders, email \in Emails, linkUID \in AllUids :
              LinkStart(p, provider, email, linkUID)
        \/ LinkRead(p)
        \/ \E writeOK \in BOOLEAN : LinkWrite(p, writeOK)

SpecRace == InitRace /\ [][NextRace]_vars

(***************************************************************************)
(* Email verification tokens and the cleanup job (SpecCleanup)             *)
(***************************************************************************)
\* 24 * time.Hour, in hours: the token lifetime and the cleanup cutoff
TokenTTL == 24

TokenName == <<"t1", "t2", "t3", "t4">>

CleanupUids == {"u1", "u2"}

\* a token issued at 0 expires at 24: the clock stops at the expiry, where
\* the token is still valid and younger than the cutoff, and one hour later
CleanupInstants == {TokenTTL, TokenTTL + 1}

\* the VerificationToken struct carries json tags only, so the document
\* saveVerificationToken stores is keyed by the Go field names
generateVerificationToken(token, email, uid, t) ==
    [Token |-> token, Email |-> email, UID |-> uid,
     CreatedAt |-> t, ExpiresAt |-> t + TokenTTL]

saveVerificationToken(coll, token) ==
    [k \in DOMAIN coll \cup {token.Token} |->
        IF k = token.Token THEN token ELSE coll[k]]

\* Collection.Where(path, "<", v) and Where(path, "==", v): the keys of the
\* documents that have the field and satisfy the comparison
WhereLess(coll, path, v) ==
    {k \in DOMAIN coll : path \in DOMAIN coll[k] /\ coll[k][path] < v}

WhereEqual(coll, path, v) ==
    {k \in DOMAIN coll : path \in DOMAIN coll[k] /\ coll[k][path] = v}

DeleteDocs(coll, keys) == [k \in DOMAIN coll \ keys |-> coll[k]]

\* the documents of a query in iteration order
Documents(coll, keys) ==
    LET order == SelectSeq(TokenName, LAMBDA k : k \in keys)
    IN  [i \in 1..Len(order) |-> coll[order[i]]]

deleteVerificationToken(coll, token) == DeleteDocs(coll, {token})

deleteAllTokensForUser(coll, uid) ==
    DeleteDocs(coll, WhereEqual(coll, "uid", uid))

\* st holds the auth records, the token collection and the deletions made;
\* DeleteUser fails for a record that is gone and nothing else is done then
deleteUnverifiedUser(st, uid, by) ==
    IF uid \notin DOMAIN st.authUsers THEN st
    ELSE [authUsers |-> [u \in DOMAIN st.authUsers \ {uid} |-> st.authUsers[u]],
          vtokens   |-> deleteAllTokensForUser(st.vtokens, uid),
          deletions |-> st.deletions \cup
                            {[uid |-> uid, by |-> by,
                              verified |-> st.authUsers[uid].emailVerified]}]

cleanupExpiredTokens(coll, t) == DeleteDocs(coll, WhereLess(coll, "expires_at", t))

RECURSIVE cleanupLoop(_, _, _)
cleanupLoop(pending, processedUIDs, st) ==
    IF pending = <<>> THEN st
    ELSE LET token == Head(pending)
             seen  == processedUIDs \cup {token.UID}
         IN  IF token.UID \in processedUIDs
                THEN cleanupLoop(Tail(pending), processedUIDs, st)
             ELSE IF token.UID \notin DOMAIN st.authUsers
                THEN cleanupLoop(Tail(pending), seen, st)
             ELSE IF st.authUsers[token.UID].emailVerified
                THEN cleanupLoop(Tail(pending), seen, st)
             ELSE cleanupLoop(Tail(pending), seen,
                              deleteUnverifiedUser(st, token.UID, "cleanup"))

cleanupExpiredUnverifiedUsers(st, t) ==
    LET cutoffTime == t - TokenTTL
        found == WhereLess(st.vtokens, "created_at", cutoffTime)
    IN  cleanupLoop(Documents(st.vtokens, found), {}, st)

CleanupState == [authUsers |-> authUsers, vtokens |-> vtokens,
                 deletions |-> deletions]

CleanupOthers ==
    UNCHANGED <<bindVars, users, user_data, sessions, profile, pre, last,
                sessVars, resolveVars, gateVars, routeVars, raceVars, taskVars>>

InitCleanup ==
    /\ \E verified \in [CleanupUids -> BOOLEAN] :
          authUsers = [u \in CleanupUids |->
                          AuthRecord(u \o "@x.com", verified[u], {"password"})]
    /\ users = EmptyColl
    /\ user_data = EmptyColl
    /\ sessions = {}
    /\ profile = EmptyColl
    /\ pre = None
    /\ last = None
    /\ steps = 0
    /\ CleanupIdle
    /\ TaskIdle
    /\ RouteIdle
    /\ RaceIdle
    /\ BindIdle
    /\ SessIdle
    /\ ResolveIdle
    /\ GateIdle

\* a verification token is generated for a user and saved
IssueToken(uid) ==
    /\ steps < MaxTokens
    /\ uid \in DOMAIN authUsers
    /\ vtokens' = saveVerificationToken(vtokens,
                      generateVerificationToken(TokenName[steps + 1],
                                                authUsers[uid].email, uid, now))
    /\ steps' = steps + 1
    /\ UNCHANGED <<authUsers, clean, verifs, deletions>>
    /\ CleanupOthers

CleanupTick(t) ==
    /\ t > now
    /\ now' = t
    /\ UNCHANGED <<jwtSecretEnv, jwtStrictExp, tok, tokMint, vres>>
    /\ UNCHANGED <<bindVars, storeVars, resolveVars, gateVars, extVars>>

\* CleanupExpiredUsers, first step
CleanupTokens ==
    /\ clean.pc = "idle"
    /\ vtokens' = cleanupExpiredTokens(vtokens, now)
    /\ clean' = [pc |-> "users", at |-> now, tokens0 |-> vtokens]
    /\ UNCHANGED <<authUsers, steps, verifs, deletions>>
    /\ CleanupOthers

\* CleanupExpiredUsers, second step and return
CleanupUsers ==
    /\ clean.pc = "users"
    /\ LET st == cleanupExpiredUnverifiedUsers(CleanupState, now)
       IN  /\ authUsers' = st.authUsers
           /\ vtokens' = st.vtokens
           /\ deletions' = st.deletions
    /\ clean' = [clean EXCEPT !.pc = "done"]
    /\ UNCHANGED <<steps, verifs>>
    /\ CleanupOthers

\* verifyEmailToken: getVerificationToken and the expiry test
VerifyGet(p, token) ==
    /\ verifs[p].pc = "idle"
    /\ IF token \notin DOMAIN vtokens
          THEN verifs' = [verifs EXCEPT ![p] =
                   [NoVerify EXCEPT !.pc = "done", !.token = token,
                                    !.result = "error"]]
          ELSE verifs' = [verifs EXCEPT ![p] =
                   [pc |-> "got", token |-> token, uid |-> vtokens[token].UID,
                    expired |-> now > vtokens[token].ExpiresAt, result |-> ""]]
    /\ UNCHANGED <<authUsers, steps, vtokens, clean, deletions>>
    /\ CleanupOthers

\* verifyEmailToken: isUserEmailVerified, on either side of the expiry test
VerifyCheck(p) ==
    LET v == verifs[p]
        known == v.uid \in DOMAIN authUsers
        isVerified == known /\ authUsers[v.uid].emailVerified
        done(result) == [v EXCEPT !.pc = "done", !.result = result]
    IN  /\ v.pc = "got"
        /\ IF v.expired
              THEN /\ verifs' = [verifs EXCEPT ![p] =
                         IF known /\ ~isVerified
                            THEN [v EXCEPT !.pc = "delete"]
                            ELSE done("failed")]
                   /\ UNCHANGED vtokens
           ELSE IF ~known
              THEN /\ verifs' = [verifs EXCEPT ![p] = done("error")]
                   /\ UNCHANGED vtokens
           ELSE IF isVerified
              THEN /\ verifs' = [verifs EXCEPT ![p] = done("success")]
                   /\ vtokens' = deleteVerificationToken(vtokens, v.token)
           ELSE /\ verifs' = [verifs EXCEPT ![p] = [v EXCEPT !.pc = "update"]]
                /\ UNCHANGED vtokens
        /\ UNCHANGED <<authUsers, steps, clean, deletions>>
        /\ CleanupOthers

\* verifyEmailToken: UpdateUser(EmailVerified(true)), then the token goes
VerifyUpdate(p) ==
    LET v == verifs[p]
    IN  /\ v.pc = "update"
        /\ IF v.uid \notin DOMAIN authUsers
              THEN /\ verifs' = [verifs EXCEPT ![p] =
                         [v EXCEPT !.pc = "done", !.result = "error"]]
                   /\ UNCHANGED <<authUsers, vtokens>>
              ELSE /\ authUsers' = [authUsers EXCEPT
                                       ![v.uid].emailVerified = TRUE]
                   /\ vtokens' = deleteVerificationToken(vtokens, v.token)
                   /\ verifs' = [verifs EXCEPT ![p] =
                         [v EXCEPT !.pc = "done", !.result = "success"]]
        /\ UNCHANGED <<steps, clean, deletions>>
        /\ CleanupOthers

\* verifyEmailToken: deleteUnverifiedUser for an expired token
VerifyDelete(p) ==
    LET v == verifs[p]
        st == deleteUnverifiedUser(CleanupState, v.uid, "verify")
    IN  /\ v.pc = "delete"
        /\ authUsers' = st.authUsers
        /\ vtokens' = st.vtokens
        /\ deletions' = st.deletions
        /\ verifs' = [verifs EXCEPT ![p] =
              [v EXCEPT !.pc = "done", !.result = "failed"]]
        /\ UNCHANGED <<steps, clean>>
        /\ CleanupOthers

NextCleanup ==
    \/ \E uid \in CleanupUids : IssueToken(uid)
    \/ \E t \in CleanupInstants : CleanupTick(t)
    \/ CleanupTokens
    \/ CleanupUsers
    \/ \E p \in VerifyProcs, token \in {TokenName[i] : i \in 1..MaxTokens} :
          VerifyGet(p, token)
    \/ \E p \in VerifyProcs :
          \/ VerifyCheck(p)
          \/ VerifyUpdate(p)
          \/ VerifyDelete(p)

SpecCleanup == InitCleanup /\ [][NextCleanup]_vars

(***************************************************************************)
(* Task documents (SpecTask)                                               *)
(***************************************************************************)
TaskUids == {<<"u", "1">>, <<"u", "2">>}

TaskDates == {"d1", "d2"}

\* a TaskSlot, reduced to a string field and the integer field; the other
\* string fields travel as Title does
TaskSlot(title, order) == [Title |-> title, Order |-> order]

\* a []TaskSlot: a nil slice and an empty one differ once stored
NilSlice == [nil |-> TRUE, items |-> <<>>]

Slice(items) == [nil |-> FALSE, items |-> items]

TaskSlices ==
    {NilSlice, Slice(<<>>), Slice(<<TaskSlot("a", 0), TaskSlot("b", 2)>>)}

\* the events of a request body: some dates, each with a slice
TaskEvents == UNION {[dates -> TaskSlices] : dates \in SUBSET TaskDates}

\* what Set stores for a TaskSlot: the struct has json tags only, so the
\* map is keyed by the Go field names, and an int is an integer value
SlotToProto(slot) ==
    [Title |-> slot.Title, Order |-> [kind |-> "integer", value |-> slot.Order]]

\* what Set stores for a []TaskSlot: null for a nil slice, else an array
SliceToProto(slice) ==
    IF slice.nil THEN [kind |-> "null"]
    ELSE [kind |-> "array",
          items |-> [i \in 1..Len(slice.items) |-> SlotToProto(slice.items[i])]]

\* the TaskSlot getExistingTaskData builds from a stored map: the numeric
\* field is taken only from a float64, and an integer value decodes as int64
SlotFromProto(m) ==
    [Title |-> m.Title,
     Order |-> IF m.Order.kind = "double" THEN m.Order.value ELSE 0]

\* the slices start as "var tasks []TaskSlot" and grow by append
SliceFromProto(v) ==
    IF Len(v.items) = 0 THEN NilSlice
    ELSE Slice([i \in 1..Len(v.items) |-> SlotFromProto(v.items[i])])

\* the events of task/<uid> as a map of slices; a missing document is an
\* empty map and a date whose value is not an array is skipped
getExistingTaskData(coll, uid) ==
    IF uid \notin DOMAIN coll THEN <<>>
    ELSE LET eventsMap == coll[uid].events
             dates == {d \in DOMAIN eventsMap : eventsMap[d].kind = "array"}
         IN  [d \in dates |-> SliceFromProto(eventsMap[d])]

\* the document saveTaskDataToFirestore writes with Set: the stored dates
\* as read back, overlaid with the dates of the request
saveTaskDataToFirestore(coll, uid, events) ==
    LET existingTasks == getExistingTaskData(coll, uid)
        merged == [d \in DOMAIN existingTasks \cup DOMAIN events |->
                      IF d \in DOMAIN events THEN events[d] ELSE existingTasks[d]]
        doc == [uid |-> uid,
                events |-> [d \in DOMAIN merged |-> SliceToProto(merged[d])]]
    IN  [k \in DOMAIN coll \cup {uid} |-> IF k = uid THEN doc ELSE coll[k]]

TaskSecret == "s3cret"

TaskOthers ==
    UNCHANGED <<bindVars, users, user_data, authUsers, sessions, profile, pre,
                last, sessVars, resolveVars, gateVars, routeVars, raceVars,
                cleanupVars>>

InitTask ==
    /\ TaskIdle
    /\ now = 0
    /\ jwtSecretEnv = TaskSecret
    /\ jwtStrictExp = FALSE
    /\ tok = None
    /\ tokMint = None
    /\ vres = None
    /\ StoreIdle
    /\ BindIdle
    /\ ResolveIdle
    /\ GateIdle
    /\ RouteIdle
    /\ RaceIdle
    /\ CleanupIdle

\* POST /api/tasks: the bearer token is one minted for tokenUID, signed
\* with the server's secret or with another key
handleTaskSave(header, tokenUID, key, useruid, events, writeOK) ==
    LET token == generateSessionToken(tokenUID, GateEmail, now, key)
        session == authMiddleware(header, token, now, jwtSecretEnv, jwtStrictExp)
        request == [uid |-> session.uid, useruid |-> useruid, events |-> events,
                    before |-> tasks]
    IN  /\ steps < MaxTaskSaves
        /\ steps' = steps + 1
        /\ IF ~session.ok
              THEN /\ tlast' = [status |-> 401, success |-> FALSE, uid |-> <<>>,
                                useruid |-> useruid, events |-> events,
                                before |-> tasks]
                   /\ UNCHANGED tasks
           ELSE IF useruid # session.uid \/ ~writeOK
              THEN /\ tlast' = [request EXCEPT !.uid = session.uid] @@
                               [status |-> 200, success |-> FALSE]
                   /\ UNCHANGED tasks
           ELSE /\ tasks' = saveTaskDataToFirestore(tasks, session.uid, events)
                /\ tlast' = request @@ [status |-> 200, success |-> TRUE]
        /\ TaskOthers

\* requests with a token the server minted, and requests that carry no
\* header or a token signed with another key
NextTask ==
    \/ \E tokenUID \in TaskUids, useruid \in TaskUids, events \in TaskEvents,
          writeOK \in BOOLEAN :
          handleTaskSave("bearer", tokenUID, TaskSecret, useruid, events, writeOK)
    \/ \E tokenUID \in TaskUids, events \in TaskEvents :
          \/ handleTaskSave("missing", tokenUID, TaskSecret, tokenUID, events, TRUE)
          \/ handleTaskSave("bearer", tokenUID, "guess", tokenUID, events, TRUE)

SpecTask == InitTask /\ [][NextTask]_vars

(***************************************************************************)
(* Properties of the session token (SpecSession)                           *)
(***************************************************************************)
Validated == vres.fresh
Untouched == tokMint.alt = "none"
MintExp == tokMint.iat + SessionTTL

\* C6: a minted token validated with the same secret before it expires
\* gives back the uid and the email it was minted for, and no error.
C6_SessionRoundTrip ==
    (Validated /\ Untouched /\ vres.at < MintExp) =>
        /\ vres.ok
        /\ vres.err = ""
        /\ vres.uid = tokMint.uid
        /\ vres.email = tokMint.email

\* a round trip of a uid and an email that both need JSON escaping
C6_Witness ==
    /\ Validated /\ Untouched /\ vres.ok
    /\ \E i \in 1..Len(tokMint.uid) : tokMint.uid[i] \in {Quote, Backslash, "<"}
    /\ \E i \in 1..Len(tokMint.email) : tokMint.email[i] = Quote
    /\ vres.uid = tokMint.uid

\* C7 as stated: exp = t + 24h; accepted at every time up to and including
\* t + 24h, rejected as Expired at every later time.
C7_AcceptedThroughExp ==
    (Validated /\ Untouched) =>
        /\ tok.claims.exp = NumMember(MintExp)
        /\ vres.at <= MintExp => vres.ok
        /\ vres.at > MintExp => (~vres.ok /\ vres.err = "Expired")

\* C7 amended: exp = t + 24h; accepted at every time before t + 24h,
\* rejected as Expired at every time after it; at exactly t + 24h the
\* linked jwt/v4 release decides (v4.0.0 accepts, later ones say Expired).
C7_SessionExpiry ==
    (Validated /\ Untouched) =>
        /\ tok.claims.exp = NumMember(MintExp)
        /\ vres.at < MintExp => vres.ok
        /\ vres.at > MintExp => (~vres.ok /\ vres.err = "Expired")
        /\ vres.at = MintExp =>
              IF jwtStrictExp THEN ~vres.ok /\ vres.err = "Expired" ELSE vres.ok

\* a minted token rejected as Expired one second after its exp
C7_Witness ==
    /\ Validated /\ Untouched
    /\ vres.at = MintExp + 1
    /\ ~vres.ok /\ vres.err = "Expired"

\* C8: no uid comes out of a token whose signature segment is not the
\* encoding of the MAC of its header and payload under the server's key;
\* a minted token whose signature segment or whose claims were changed is
\* rejected with BadSignature.
C8_TamperDetected ==
    Validated =>
        /\ vres.ok =>
              tok.sig = [mac |-> MAC(tok.alg, SecretKey(jwtSecretEnv), tok.claims),
                         pad |-> 0]
        /\ tokMint.alt \in {"sig", "pad", "claim"} =>
              (~vres.ok /\ vres.err = "BadSignature")

(***************************************************************************)
(* Properties of the merge (SpecBinding)                                   *)
(***************************************************************************)
BLastKind == bArgs[1]
BLastUid == bArgs[2]
BLastEmail == bArgs[3]
BValidCall == bCalls > 0 /\ BLastKind \in KindSet

\* number of entries of a list equal to the pair (uid, email)
CountExact(list, uid, email) ==
    Cardinality({i \in 1..Len(list) : list[i] = ProviderInfo(uid, email)})

\* number of entries of a list that carry the uid or the email
CountMatching(list, uid, email) ==
    Cardinality({i \in 1..Len(list) :
                    list[i].userUID = uid \/ list[i].emailAddress = email})

\* the fields of b other than the list of kind are those of a
OtherFieldsSame(a, b, kind) ==
    /\ a.userName = b.userName
    /\ a.userColor = b.userColor
    /\ a.uid = b.uid
    /\ \A k \in KindSet \ {kind} : a[ListField(k)] = b[ListField(k)]

\* C1 as stated: a call repeated with identical arguments changes nothing,
\* the kind's list then holds exactly one entry for the arguments (read
\* generously: exactly one entry carries the uid or the email), and every
\* other list and field is as before.
C1_ExactlyOneEntry ==
    (BValidCall /\ bRepeat) =>
        /\ userData = bPrev
        /\ CountMatching(userData[ListField(BLastKind)], BLastUid, BLastEmail) = 1
        /\ OtherFieldsSame(bPrev, userData, BLastKind)

\* C1 amended: a call repeated with identical arguments changes nothing;
\* every call leaves the other lists and fields alone; the kind's list
\* holds the pair exactly once, unless an entry that shares only the uid or
\* only the email blocked the append, and then it holds no entry for it.
C1_IdempotentMerge ==
    /\ BValidCall => OtherFieldsSame(bPrev, userData, BLastKind)
    /\ (BValidCall /\ bRepeat) =>
          LET list == userData[ListField(BLastKind)]
              n == CountExact(list, BLastUid, BLastEmail)
          IN /\ userData = bPrev
             /\ n <= 1
             /\ n = 0 =>
                   \E i \in 1..Len(list) :
                       /\ list[i] # ProviderInfo(BLastUid, BLastEmail)
                       /\ \/ list[i].userUID = BLastUid
                          \/ list[i].emailAddress = BLastEmail

\* a repeated call whose first occurrence appended the entry
C1_Witness ==
    /\ BValidCall /\ bRepeat
    /\ LET list == userData[ListField(BLastKind)]
       IN Len(list) >= 1 /\ list[Len(list)] = ProviderInfo(BLastUid, BLastEmail)

NoSharedField(list) ==
    \A i, j \in 1..Len(list) :
        i # j => /\ list[i].userUID # list[j].userUID
                 /\ list[i].emailAddress # list[j].emailAddress

\* C2: no two entries of one kind share a uid or share an email; a call
\* that matches an existing entry of the kind on uid or on email changes
\* nothing, any other call appends one entry at the end of that list.
C2_UniqueWithinKind ==
    /\ \A k \in KindSet : NoSharedField(userData[ListField(k)])
    /\ BValidCall =>
          LET f == ListField(BLastKind)
              hit == {e \in Range(bPrev[f]) :
                        e.userUID = BLastUid \/ e.emailAddress = BLastEmail}
          IN IF hit # {}
             THEN userData = bPrev
             ELSE /\ Len(userData[f]) = Len(bPrev[f]) + 1
                  /\ userData[f][Len(userData[f])] = ProviderInfo(BLastUid, BLastEmail)
                  /\ SubSeq(userData[f], 1, Len(bPrev[f])) = bPrev[f]
                  /\ OtherFieldsSame(bPrev, userData, BLastKind)

\* a call that was dropped because only its email matched an entry
C2_Witness ==
    /\ BValidCall
    /\ userData = bPrev
    /\ LET list == bPrev[ListField(BLastKind)]
       IN /\ \E i \in 1..Len(list) : list[i].emailAddress = BLastEmail
          /\ \A i \in 1..Len(list) : list[i].userUID # BLastUid

(***************************************************************************)
(* Properties of the handlers (Spec)                                       *)
(***************************************************************************)
LinkOps == {"google", "twitter", "link"}

\* the last request linked a provider to uid U and completed
LinkCompleted(U) ==
    /\ last.op \in LinkOps
    /\ last.status = 200
    /\ last.uid = U

\* before the last request the persisted name and colour of U were the ones
\* a profile update had saved
ProfileWasSet(U) ==
    /\ U \in DOMAIN profile
    /\ U \in DOMAIN pre.user_data
    /\ pre.user_data[U].userName = profile[U].userName
    /\ pre.user_data[U].userColor = profile[U].userColor

\* C3: a completed link operation for a uid whose userName and userColor
\* were saved by a profile update leaves the persisted userName and
\* userColor of that uid as they were.
C3_ProfilePreserved ==
    \A U \in AllUids :
        (LinkCompleted(U) /\ ProfileWasSet(U)) =>
            /\ U \in DOMAIN user_data
            /\ user_data[U].userName = pre.user_data[U].userName
            /\ user_data[U].userColor = pre.user_data[U].userColor

\* C4: for every binding (P, E) of kind K persisted in the identity stored
\* for U, the lookup by provider uid P (no document being keyed P) and the
\* lookup by email E both return an identity with uid U holding the binding.
C4_LookupConsistency ==
    \A U \in DOMAIN user_data : \A K \in KindSet :
        \A b \in Range(user_data[U][ListField(K)]) :
            /\ b.userUID \notin DOMAIN users =>
                  LET byUID == getUserDataByUID(users, b.userUID)
                  IN byUID.uid = U /\ b \in Range(byUID[ListField(K)])
            /\ LET byEmail == findOrCreateUserDataByEmail(users, b.emailAddress)
               IN /\ byEmail.found
                  /\ byEmail.data.uid = U
                  /\ b \in Range(byEmail.data[ListField(K)])

\* the documents of the resolver's collection that hold email under kind
Holding(kind, email) ==
    {k \in DOMAIN users :
        \E i \in 1..Len(users[k][ListField(kind)]) :
            users[k][ListField(kind)][i].emailAddress = email}

UnlinkHandled ==
    /\ last.op = "unlink"
    /\ last.provider \in KindSet
    /\ last.target \in DOMAIN pre.user_data

StoresUnchanged == user_data = pre.user_data /\ authUsers = pre.authUsers

\* C9: an unlink of the only binding of an identity is rejected with a 4xx
\* "last auth method" error and leaves identity and auth record unchanged.
C9_LastBindingGuard ==
    (/\ UnlinkHandled
     /\ BindingCount(pre.user_data[last.target]) = 1
     /\ Len(pre.user_data[last.target][ListField(last.provider)]) = 1) =>
        /\ last.status \in 400..499
        /\ last.error = "last auth method"
        /\ StoresUnchanged

KnownBefore(email) ==
    {u \in DOMAIN pre.authUsers : pre.authUsers[u].email = email}

\* the last request was a login with the provider, without linkUID, whose
\* credential was verified and which was answered 200
LoginCompleted(provider) ==
    /\ last.op = provider
    /\ last.target = ""
    /\ last.verified
    /\ last.status = 200

\* C11: a first Google login (no linkUID) with Google user id G for an
\* email E no account holds persists the identity uid "google_" + G with
\* the single google binding (G, E), no other binding, userName "" and
\* userColor "#3b82f6".
C11_FirstGoogleLogin ==
    \A G \in GoogleIDs :
        (/\ LoginCompleted("google")
         /\ KnownBefore(last.email) = {}
         /\ last.uid = GoogleUID(G)) =>
            /\ GoogleUID(G) \in DOMAIN user_data
            /\ user_data[GoogleUID(G)] =
                  [DefaultUserData(GoogleUID(G))
                      EXCEPT !.google = <<ProviderInfo(G, last.email)>>]

\* the identity holds the email under the kind
HoldsEmail(d, kind, email) ==
    \E i \in 1..Len(d[ListField(kind)]) : d[ListField(kind)][i].emailAddress = email

\* C12: when a password account U with a userName saved by a profile
\* update exists for email E and a Google login for E completes, the uid
\* answered is U and the identity persisted for U has uid U, a password
\* binding for E, a google binding for E and the userName it had before.
C12_PasswordThenGoogle ==
    \A U \in PasswordUids :
        (/\ LoginCompleted("google")
         /\ KnownBefore(last.email) = {U}
         /\ "password" \in pre.authUsers[U].providers
         /\ ProfileWasSet(U)) =>
            /\ last.uid = U
            /\ U \in DOMAIN user_data
            /\ user_data[U].uid = U
            /\ HoldsEmail(user_data[U], "password", last.email)
            /\ HoldsEmail(user_data[U], "google", last.email)
            /\ user_data[U].userName = pre.user_data[U].userName

\* the last request asked to link a provider to the existing account
\* last.target: a login with linkUID whose credential was verified, or a
\* call of POST /api/link-account that reached the provider's link step
LinkRequested ==
    /\ last.target \in DOMAIN pre.authUsers
    /\ \/ last.op \in {"google", "twitter"} /\ last.verified
       \/ last.op = "link" /\ last.email # ""

\* the identities persisted before the last request, other than T, that
\* hold the email under some kind
OthersHolding(T, email) ==
    {u \in DOMAIN pre.user_data \ {T} :
        \E k \in KindSet : HoldsEmail(pre.user_data[u], k, email)}

\* C14: a link request for T whose provider email is bound to an identity
\* other than T is answered 409 and changes no identity, and so no
\* (kind, email) binding ever belongs to two identities.
C14_LinkConflict ==
    /\ (LinkRequested /\ OthersHolding(last.target, last.email) # {}) =>
            /\ last.status = 409
            /\ user_data = pre.user_data
    /\ \A k \in KindSet, e \in Emails :
          Cardinality({u \in DOMAIN user_data : HoldsEmail(user_data[u], k, e)}) <= 1

\* C15: a google, github or twitter binding appears in a persisted
\* identity only in a request in which a credential for that provider was
\* verified, and carries the email that verification returned.
C15_BindingNeedsCredential ==
    \A u \in DOMAIN user_data, k \in OAuthProviders :
        \A b \in Range(user_data[u][ListField(k)]) :
            (u \notin DOMAIN pre.user_data
                \/ b \notin Range(pre.user_data[u][ListField(k)])) =>
                /\ last.verified
                /\ last.provider = k
                /\ b.emailAddress = last.email

\* C16: a profile update that succeeds leaves the four binding lists
\* persisted for the caller exactly as they were persisted before it.
C16_ProfileUpdateFrame ==
    (/\ last.op = "profile"
     /\ last.status = 200
     /\ last.target \in DOMAIN pre.user_data) =>
        /\ last.target \in DOMAIN user_data
        /\ \A k \in KindSet :
              user_data[last.target][ListField(k)] =
                  pre.user_data[last.target][ListField(k)]

\* the last request was a Google or Twitter login whose profile fetch
\* succeeded, whose uid was resolved and whose document write failed
LoginWriteFailed ==
    /\ last.op \in {"google", "twitter"}
    /\ last.verified
    /\ last.write = "failed"

\* C17: a Google or Twitter login, with or without linkUID, whose identity
\* document write fails is still answered 200 with a session for the uid
\* it resolved (the link target, else the account holding the email, else
\* the account just created); the failed write changes no document.
C17_WriteFailureTolerated ==
    LoginWriteFailed =>
        /\ last.status = 200
        /\ last.uid \in sessions
        /\ last.uid \in DOMAIN authUsers
        /\ IF last.target # "" THEN last.uid = last.target
           ELSE IF KnownBefore(last.email) # {}
                THEN last.uid \in KnownBefore(last.email)
                ELSE last.uid \notin DOMAIN pre.authUsers
        /\ user_data = pre.user_data

\* a first Twitter login whose write failed: the account exists, the
\* session is issued and no identity document was persisted
C17_Witness ==
    /\ LoginWriteFailed
    /\ last.op = "twitter"
    /\ last.target = ""
    /\ KnownBefore(last.email) = {}
    /\ last.status = 200
    /\ last.uid \in sessions
    /\ last.uid \notin DOMAIN user_data

(***************************************************************************)
(* Properties of signups and logins without linkUID (SpecLogin)            *)
(***************************************************************************)
\* the persisted identities that hold the email under some kind
DocsHolding(email) ==
    {u \in DOMAIN user_data : \E k \in KindSet : HoldsEmail(user_data[u], k, email)}

\* C13: after any sequence of password signups and OAuth logins without
\* linkUID at most one account and at most one persisted identity exist
\* per email, and an OAuth login whose email an account U already holds
\* answers U, creates no auth user and writes no identity document under
\* another uid.
C13_OneIdentityPerEmail ==
    /\ \A e \in Emails :
          /\ Cardinality(GetUserByEmail(e)) <= 1
          /\ Cardinality(DocsHolding(e)) <= 1
          /\ DocsHolding(e) \subseteq GetUserByEmail(e)
    /\ \A p \in OAuthProviders, U \in AllUids :
          (LoginCompleted(p) /\ U \in KnownBefore(last.email)) =>
              /\ last.uid = U
              /\ DOMAIN authUsers = DOMAIN pre.authUsers
              /\ DOMAIN user_data \subseteq DOMAIN pre.user_data \cup {U}

\* a Twitter login for the email of the account a Google login created
\* answers that account's uid while the Twitter-derived uid stays unused
C13_Witness ==
    /\ LoginCompleted("twitter")
    /\ KnownBefore(last.email) = {GoogleUID("42")}
    /\ last.uid = GoogleUID("42")
    /\ GoogleUID("42") \in DOMAIN user_data
    /\ HoldsEmail(user_data[GoogleUID("42")], "twitter", last.email)
    /\ TwitterUID("7") \notin DOMAIN authUsers

(***************************************************************************)
(* Properties of the authenticated endpoints (SpecGate)                    *)
(***************************************************************************)
\* the last request to an authenticated endpoint carried a bearer token
\* that validateSessionToken accepts at the time of the request
GatePassed == gate.header = "bearer" /\ gate.valid

\* the request carried no token, no bearer header, a token that was never
\* minted, one re-signed with another key, one whose claims or header were
\* rewritten, or one past its expiry
GateBadRequest ==
    \/ gate.header \in {"missing", "malformed"}
    \/ gate.alt \in {"unminted", "sig", "claim", "alg"}
    \/ gate.expired

C19_MintNeedsSecret ==
    tokMint.alt = "none" =>
        /\ jwtSecretEnv # ""
        /\ tok.sig.mac.key = jwtSecretEnv

(***************************************************************************)
(* Properties of the persisted identity documents (Spec)                   *)
(***************************************************************************)

\* C20: every persisted identity document holds at least one binding
\* across its four kinds, whatever requests were handled.
C20_AtLeastOneBinding ==
    \A u \in DOMAIN user_data : BindingCount(user_data[u]) >= 1

(***************************************************************************)
(* Properties of the uid field (Spec)                                      *)
(***************************************************************************)

\* C21: the identity document stored under key U carries uid U, and a
\* request leaves every document that existed before it in place under its
\* key with the uid field it had; no document is written under the key of
\* another identity.
C21_UidStable ==
    /\ \A u \in DOMAIN user_data : user_data[u].uid = u
    /\ \A u \in DOMAIN pre.user_data :
          /\ u \in DOMAIN user_data
          /\ user_data[u].uid = pre.user_data[u].uid

\* an existing document was rewritten by a link on behalf of its identity
\* and by nothing else: its contents changed, its uid field did not
C21_Witness ==
    /\ last.op \in LinkOps
    /\ last.status = 200
    /\ last.target \in DOMAIN pre.user_data
    /\ user_data[last.target] # pre.user_data[last.target]
    /\ user_data[last.target].uid = last.target

(***************************************************************************)
(* Properties of the login responses (Spec)                                *)
(***************************************************************************)
LoginEndpoints == {"login", "google", "github", "twitter"}

\* C22: every 200 response of POST /api/login and of POST /api/auth/google,
\* /api/auth/github and /api/auth/twitter carries a uid, an email and a
\* session token minted for that same uid and email.
C22_LoginResponse ==
    (last.op \in LoginEndpoints /\ last.status = 200) =>
        /\ last.uid # ""
        /\ last.email # ""
        /\ last.token.kind = "session"
        /\ last.token.uid = last.uid
        /\ last.token.email = last.email

(***************************************************************************)
(* Properties of successive links (Spec)                                   *)
(***************************************************************************)

\* the last request linked a provider to the identity U it named (linkUID
\* of an OAuth login, or the caller of /api/link-account), answered 200 and
\* wrote the document
LinkedTo(U) ==
    /\ last.op \in LinkOps
    /\ last.target = U
    /\ last.status = 200
    /\ last.write = "ok"

\* C23: when a provider of kind K2 is linked to an identity that already
\* holds a persisted binding of another kind K1, from an earlier completed
\* request, the persisted identity afterwards holds both the K1 binding and
\* a K2 binding.
C23_SequentialLinks ==
    \A U \in DOMAIN pre.user_data :
        LinkedTo(U) =>
            /\ Len(user_data[U][last.provider]) > 0
            /\ \A k \in OAuthProviders \ {last.provider} :
                  Range(pre.user_data[U][k]) \subseteq Range(user_data[U][k])

(***************************************************************************)
(* Properties of the first OAuth login (Spec)                              *)
(***************************************************************************)

\* C24: after the first successful OAuth login (google, github or twitter,
\* no linkUID) for an email no account holds, and with no store write
\* having failed, an identity document keyed by the returned uid exists
\* and holds exactly one binding, in the list of the provider used.
C24_FirstLoginPersists ==
    \A k \in OAuthProviders :
        (/\ LoginCompleted(k)
         /\ KnownBefore(last.email) = {}
         /\ last.write # "failed") =>
            /\ last.uid \in DOMAIN user_data
            /\ BindingCount(user_data[last.uid]) = 1
            /\ Len(user_data[last.uid][k]) = 1

(***************************************************************************)
(* Properties of the derived uid (SpecDerive)                              *)
(***************************************************************************)

\* the uid the login of the kind derives from the provider's user id
DeriveUID(kind, id) ==
    CASE kind = "google" -> GoogleUID(id)
      [] kind = "github" -> GitHubUID(id)
      [] kind = "twitter" -> TwitterUID(id)

\* the last request was the first login for its email and created the
\* account it answered with
FirstLogin ==
    /\ last.op \in OAuthProviders
    /\ last.target = ""
    /\ last.verified
    /\ last.status = 200
    /\ KnownBefore(last.email) = {}

DerivePairs == OAuthProviders \X DeriveIDs

\* C25 as stated: the uid assigned on a first OAuth login is
\* <kind>_<providerUserID> for each of google, github and twitter.
C25_UnderscoreForm ==
    FirstLogin => last.uid = last.provider \o "_" \o last.pid

\* C25: the uid assigned on a first OAuth login for an unseen email is a
\* function of (kind, providerUserID), namely google_<id>, github_<id> and
\* twitter:<id>, and two different (kind, providerUserID) pairs never
\* yield the same uid.
C25_DerivedUid ==
    /\ FirstLogin =>
          /\ last.uid = DeriveUID(last.provider, last.pid)
          /\ last.uid \in DOMAIN authUsers
          /\ last.uid \notin DOMAIN pre.authUsers
    /\ \A p, q \in DerivePairs :
          DeriveUID(p[1], p[2]) = DeriveUID(q[1], q[2]) => p = q

\* a first Twitter login by account 7 after a first Google login by the
\* Google account with the same id 7: two accounts, two uids
C25_Witness ==
    /\ FirstLogin
    /\ last.provider = "twitter"
    /\ last.pid = "7"
    /\ last.uid = "twitter:7"
    /\ "google_7" \in DOMAIN pre.authUsers
    /\ {"google_7", "twitter:7"} \subseteq DOMAIN authUsers

(***************************************************************************)
(* Properties of the routers (SpecRoute)                                   *)
(***************************************************************************)

\* C26: in both routers GET /api/user-providers-detail reaches the
\* provider-detail function and GET /api/user-providers reaches the
\* provider-list function; neither path is answered by the branch of the
\* other.
C26_ProviderRoutes ==
    (route.router \in Routers /\ route.method = "GET") =>
        /\ route.path = ProvidersDetailPath =>
              route.target = "processUserProvidersDetailRequest"
        /\ route.path = ProvidersPath =>
              route.target = "processUserProvidersRequest"

(***************************************************************************)
(* Properties of overlapping links (SpecRace)                              *)
(***************************************************************************)

\* both requests linked different providers to the same identity, both
\* read the document before either had written, both wrote and both
\* answered 200
RaceOverlapped(p, q) ==
    /\ race[p].pc = "done" /\ race[q].pc = "done"
    /\ race[p].status = 200 /\ race[q].status = 200
    /\ race[p].uid = race[q].uid
    /\ race[p].provider # race[q].provider
    /\ race[p].seen = 0 /\ race[q].seen = 0
    /\ race[p].doc = race[q].doc
    /\ race[p].wrote = 1 /\ race[q].wrote = 2

\* C27: when two link requests for the same uid overlap so that both read
\* the same prior document before either writes, the later write replaces
\* the earlier one: the persisted identity is the later writer's copy and
\* lacks the binding the earlier request added, although both requests
\* answered 200.
C27_LostUpdate ==
    \A p, q \in RaceProcs :
        (/\ RaceOverlapped(p, q)
         /\ Len(race[p].doc[race[p].provider]) = 0) =>
            /\ user_data[race[q].uid] =
                  addOAuthProvider(race[q].doc, race[q].provider,
                                   race[q].email, race[q].uid)
            /\ Len(user_data[race[q].uid][race[p].provider]) = 0
            /\ Len(user_data[race[q].uid][race[q].provider]) > 0

\* a Google link and a Twitter link for u1 overlapped; both answered 200
\* and the persisted identity holds the Twitter binding only
C27_Witness ==
    /\ RaceOverlapped("p1", "p2")
    /\ race["p1"].provider = "google"
    /\ race["p2"].provider = "twitter"
    /\ race["p1"].uid = "u1"
    /\ Len(race["p1"].doc.google) = 0
    /\ Len(user_data["u1"].google) = 0
    /\ Len(user_data["u1"].twitter) = 1

(***************************************************************************)
(* Properties of the cleanup job (SpecCleanup)                             *)
(***************************************************************************)
\* a token of the collection as the run found it, older than the cutoff,
\* whose user is still there and still unverified
StaleUnverified(uid) ==
    /\ uid \in DOMAIN authUsers
    /\ ~authUsers[uid].emailVerified
    /\ \E k \in DOMAIN clean.tokens0 :
          /\ clean.tokens0[k].UID = uid
          /\ clean.tokens0[k].CreatedAt < clean.at - TokenTTL

\* C28: once CleanupExpiredUsers has returned, no auth user is left that is
\* unverified and had a verification token created more than 24 hours
\* before the run
C28_CleanupComplete ==
    clean.pc = "done" => \A uid \in CleanupUids : ~StaleUnverified(uid)

\* C29: every auth user that was deleted, by the cleanup job or by
\* verifyEmailToken, was unverified at the moment of the deletion
C29_OnlyUnverifiedDeleted ==
    \A d \in deletions : ~d.verified

(***************************************************************************)
(* Properties of the task documents (SpecTask)                             *)
(***************************************************************************)
\* the events stored for uid in a collection, none for a missing document
StoredEvents(coll, uid) == IF uid \in DOMAIN coll THEN coll[uid].events ELSE <<>>

\* no document other than task/<uid of the token> differs from before
C30_OnlyOwnDocument ==
    tlast.status # 0 =>
        \A u \in (DOMAIN tasks \cup DOMAIN tlast.before) \ {tlast.uid} :
            /\ u \in DOMAIN tasks
            /\ u \in DOMAIN tlast.before
            /\ tasks[u] = tlast.before[u]

\* a body whose useruid differs from the uid of the token writes nothing
C30_MismatchWritesNothing ==
    (tlast.status # 0 /\ tlast.useruid # tlast.uid) => tasks = tlast.before

\* after a save the dates of the request hold the slots of the request
C30_NamedDatesReplaced ==
    (tlast.status = 200 /\ tlast.success) =>
        \A d \in DOMAIN tlast.events :
            /\ d \in DOMAIN StoredEvents(tasks, tlast.uid)
            /\ StoredEvents(tasks, tlast.uid)[d] = SliceToProto(tlast.events[d])

\* after a save every stored date the request did not name is as before
C30_OtherDatesUnchanged ==
    (tlast.status = 200 /\ tlast.success) =>
        \A d \in DOMAIN StoredEvents(tlast.before, tlast.uid) \ DOMAIN tlast.events :
            /\ d \in DOMAIN StoredEvents(tasks, tlast.uid)
            /\ StoredEvents(tasks, tlast.uid)[d] =
                   StoredEvents(tlast.before, tlast.uid)[d]

\* C30: handleTaskSave writes only task/<uid of the validated token>; a
\* body naming another uid writes nothing; a successful save replaces the
\* dates it names and leaves every other stored date of the user unchanged
C30_TaskSaveFrame ==
    /\ C30_OnlyOwnDocument
    /\ C30_MismatchWritesNothing
    /\ C30_NamedDatesReplaced
    /\ C30_OtherDatesUnchanged

====
